---------------------------- MODULE Spec2Model ----------------------------
(* A model of the velocity-report job of src/index.js: the pure helpers    *)
(* (chunkMessage, resolveAuthorName, buildMemberSummaries) and the run of  *)
(* main() from discovery through collection, aggregation and dispatch.     *)
(*                                                                         *)
(* Text is a sequence of one-character strings; NL is the line separator.  *)
(* Each group of variables belongs to one specification; the other groups  *)
(* rest at Idle under it.                                                  *)
EXTENDS Integers, Sequences, FiniteSets, TLC

VARIABLES
  text,        \* chunkMessage: the text argument
  limit,       \* chunkMessage: the limit argument
  chunks,      \* chunkMessage: the returned array of chunks
  hardCont,    \* ghost: hardCont[i] iff chunks[i] continues a hard-split line
  entry,       \* resolveAuthorName: the record argument
  resolved,    \* resolveAuthorName: the returned name
  activity,    \* buildMemberSummaries: the five record lists of the argument
  summaries,   \* buildMemberSummaries: the returned, sorted summaries
  pc,              \* main: where the run is
  exitCode,        \* the process exit status: "running", "zero" or "nonzero"
  fatal,           \* what ended the run with a failure: [msg, req]
  stdout,          \* what the run printed last on standard output
  failures,        \* ghost: the requests that failed so far
  window,          \* main: {since, until} of computeWindow() and monthStart
  github,          \* whether the GitHub client exists (GITHUB_TOKEN set)
  staticGitlabIds, \* main: parseCsv("GITLAB_PROJECT_IDS")
  gitlabProjectIds,\* main: the identifiers handed to collectForProject
  glEnv,           \* discoverProjects: the configuration it read
  glPending,       \* discoverProjects: the listings still to fetch, in order
  glProjects,      \* discoverProjects: projects
  projectCache,    \* the Map projectCache, as a set of [key, value]
  glCollectors,    \* the collectForProject calls in flight, in call order
  gitlabResults,   \* main: gitlabResults
  githubStatic,    \* ghost: parseCsv("GITHUB_REPOS")
  githubRepos,     \* main: githubRepos
  ghEnv,           \* discoverGithubRepos: the configuration it read
  ghPending,       \* discoverGithubRepos: the listings still to fetch, in order
  repoMap,         \* discoverGithubRepos: repoMap, in insertion order
  githubRepoCache, \* the Map githubRepoCache, as a set of [key, value]
  ghCollectors,    \* the collectForGithubRepo calls in flight, in call order
  githubResults,   \* main: githubResults
  messages,        \* main: messages, the groups of blocks to post
  posting,         \* the chunk whose POST is in flight: [g, c], or NoPost
  sent,            \* the chunks the delivery endpoint accepted, in order
  input,       \* a function of the program called on its own: the arguments
  output       \* that function: what it returned

chunkVars  == <<text, limit, chunks, hardCont>>
authorVars == <<entry, resolved>>
memberVars == <<activity, summaries>>
mainVars   == <<pc, exitCode, fatal, stdout, failures, window, github>>
gitlabVars == <<staticGitlabIds, gitlabProjectIds, glEnv, glPending, glProjects,
                projectCache, glCollectors, gitlabResults>>
githubVars == <<githubStatic, githubRepos, ghEnv, ghPending, repoMap,
                githubRepoCache, ghCollectors, githubResults>>
postVars   == <<messages, posting, sent>>
runVars    == <<mainVars, gitlabVars, githubVars, postVars>>
callVars   == <<input, output>>
vars       == <<chunkVars, authorVars, memberVars, runVars, callVars>>

Idle   == "idle"
NotRun == "not-run"

ChunkIdle  == text = Idle /\ limit = Idle /\ chunks = Idle /\ hardCont = Idle
AuthorIdle == entry = Idle /\ resolved = Idle
MemberIdle == activity = Idle /\ summaries = Idle
CallIdle   == input = Idle /\ output = Idle

\* The result of a function called on its own: none yet, or the value.
NoOutput == [ran |-> FALSE]
Returned(v) == [ran |-> TRUE, value |-> v]
RunIdle ==
  /\ pc = Idle
  /\ exitCode = Idle
  /\ fatal = Idle
  /\ stdout = Idle
  /\ failures = Idle
  /\ window = Idle
  /\ github = Idle
  /\ staticGitlabIds = Idle
  /\ gitlabProjectIds = Idle
  /\ glEnv = Idle
  /\ glPending = Idle
  /\ glProjects = Idle
  /\ projectCache = Idle
  /\ glCollectors = Idle
  /\ gitlabResults = Idle
  /\ githubStatic = Idle
  /\ githubRepos = Idle
  /\ ghEnv = Idle
  /\ ghPending = Idle
  /\ repoMap = Idle
  /\ githubRepoCache = Idle
  /\ ghCollectors = Idle
  /\ githubResults = Idle
  /\ messages = Idle
  /\ posting = Idle
  /\ sent = Idle

-----------------------------------------------------------------------------
(* Bounds of the model.                                                    *)

MaxLen == 5      \* longest text given to chunkMessage
MaxLimit == 3    \* largest limit given to chunkMessage
MaxRecords == 3  \* most records (of all five lists together) given to buildMemberSummaries
DefaultLimit == 4  \* the chunk limit of a run: 1800 in the source, scaled to the
                   \* rendered blocks of the model, which are a few symbols long

-----------------------------------------------------------------------------
(* Text helpers: what the JavaScript string methods used by the code do.   *)

NL == "\n"
SP == " "
Chars == {"a", "b", SP, NL}

SeqsUpTo(S, n) == UNION {[1..k -> S] : k \in 0..n}

IsSpace(c) == c = SP \/ c = NL

\* String.prototype.split(sep): the pieces between separators; always at
\* least one piece, empty pieces kept.
RECURSIVE SplitFrom(_, _, _, _)
SplitFrom(s, sep, i, cur) ==
  IF i > Len(s) THEN <<cur>>
  ELSE IF s[i] = sep THEN <<cur>> \o SplitFrom(s, sep, i + 1, <<>>)
  ELSE SplitFrom(s, sep, i + 1, Append(cur, s[i]))

SplitBy(s, sep) == SplitFrom(s, sep, 1, <<>>)

\* text.split("\n") of line 583.
Split(s) == SplitBy(s, NL)

\* String.prototype.slice(from, to) with 0-based from, exclusive to.
Slice(s, from, to) ==
  LET hi == IF to < Len(s) THEN to ELSE Len(s)
  IN  IF from >= hi THEN <<>> ELSE SubSeq(s, from + 1, hi)

\* String.prototype.trim(): leading and trailing white space removed.
RECURSIVE TrimLeft(_)
TrimLeft(s) ==
  IF s # <<>> /\ IsSpace(Head(s)) THEN TrimLeft(Tail(s)) ELSE s

RECURSIVE TrimRight(_)
TrimRight(s) ==
  IF s # <<>> /\ IsSpace(s[Len(s)]) THEN TrimRight(SubSeq(s, 1, Len(s) - 1)) ELSE s

Trim(s) == TrimRight(TrimLeft(s))

\* Array.prototype.join(sep) over an array of texts.
RECURSIVE Join(_, _)
Join(parts, sep) ==
  IF parts = <<>> THEN <<>>
  ELSE IF Len(parts) = 1 THEN parts[1]
  ELSE parts[1] \o sep \o Join(Tail(parts), sep)

-----------------------------------------------------------------------------
(* chunkMessage (src/index.js 578-607).                                    *)

\* A mutant of the while loop: a last piece shorter than the limit is lost.
RECURSIVE HardSplitDropsTail(_, _, _)
HardSplitDropsTail(line, index, lim) ==
  IF index + lim <= Len(line)
  THEN <<Slice(line, index, index + lim)>> \o HardSplitDropsTail(line, index + lim, lim)
  ELSE <<>>

\* The while loop of lines 598-602: the pieces line.slice(index, index+limit).
RECURSIVE HardSplit(_, _, _)
HardSplit(line, index, lim) ==
  IF index < Len(line)
  THEN <<Slice(line, index, index + lim)>> \o HardSplit(line, index + lim, lim)
  ELSE <<>>

\* A mutant of one loop iteration: the flush of line 591-594 forgets the case
\* of a line that is itself longer than the limit and keeps it whole.
ChunkStepNoHardSplit(st, line, lim) ==
  LET candidate == IF st.current # <<>> THEN st.current \o <<NL>> \o line ELSE line
      flushed   == IF st.current # <<>>
                   THEN [st EXCEPT !.chunks = Append(@, st.current),
                                   !.hard = Append(@, FALSE),
                                   !.current = <<>>]
                   ELSE st
  IN  IF Len(candidate) <= lim THEN [st EXCEPT !.current = candidate]
      ELSE [flushed EXCEPT !.current = line]

\* One iteration of the for loop of lines 585-604 on the loop state
\* [chunks, current]; hard is the ghost that records which pushed chunks
\* continue a hard-split line (every piece but the first).
ChunkStep(st, line, lim) ==
  LET candidate == IF st.current # <<>> THEN st.current \o <<NL>> \o line ELSE line
      flushed   == IF st.current # <<>>
                   THEN [st EXCEPT !.chunks = Append(@, st.current),
                                   !.hard = Append(@, FALSE),
                                   !.current = <<>>]
                   ELSE st
      pieces    == HardSplit(line, 0, lim)
  IN  IF Len(candidate) <= lim THEN [st EXCEPT !.current = candidate]
      ELSE IF Len(line) <= lim THEN [flushed EXCEPT !.current = line]
      ELSE [flushed EXCEPT !.chunks = @ \o pieces,
                           !.hard = @ \o [i \in 1..Len(pieces) |-> i > 1]]

RECURSIVE ChunkLoop(_, _, _)
ChunkLoop(st, lines, lim) ==
  IF lines = <<>> THEN st
  ELSE ChunkLoop(ChunkStep(st, Head(lines), lim), Tail(lines), lim)

\* The whole function, with the ghost: [chunks, hard].
ChunkTrace(txt, lim) ==
  IF txt = <<>> THEN [chunks |-> <<>>, hard |-> <<>>]
  ELSE LET st == ChunkLoop([chunks |-> <<>>, hard |-> <<>>, current |-> <<>>],
                           Split(txt), lim)
       IN  IF st.current # <<>>
           THEN [chunks |-> Append(st.chunks, st.current), hard |-> Append(st.hard, FALSE)]
           ELSE [chunks |-> st.chunks, hard |-> st.hard]

chunkMessage(txt, lim) == ChunkTrace(txt, lim).chunks

-----------------------------------------------------------------------------
(* SpecChunk: chunkMessage applied to every text and limit of the bounds.  *)

InitChunk ==
  /\ text \in SeqsUpTo(Chars, MaxLen)
  /\ limit \in 1..MaxLimit
  /\ chunks = NotRun
  /\ hardCont = NotRun
  /\ AuthorIdle /\ MemberIdle /\ RunIdle /\ CallIdle

CallChunkMessage ==
  /\ chunks = NotRun
  /\ chunks' = chunkMessage(text, limit)
  /\ hardCont' = ChunkTrace(text, limit).hard
  /\ UNCHANGED <<text, limit, authorVars, memberVars, runVars, callVars>>

NextChunk == CallChunkMessage

SpecChunk == InitChunk /\ [][NextChunk]_vars

Chunked == chunks # NotRun /\ chunks # Idle

\* The text is what postMessageBlocks hands over: trimmed and not empty.
IsTrimmedText(s) == s # <<>> /\ Trim(s) = s

\* Re-joining: a newline between chunks split at a line boundary, nothing
\* between the pieces of a hard-split line.
RECURSIVE Rejoin(_, _, _)
Rejoin(cs, hard, i) ==
  IF i > Len(cs) THEN <<>>
  ELSE (IF i = 1 THEN <<>> ELSE IF hard[i] THEN <<>> ELSE <<NL>>)
       \o cs[i] \o Rejoin(cs, hard, i + 1)

\* C1: every chunk returned by chunkMessage(text, limit), limit >= 1, has
\* length <= limit, a hard-split line included.
C1_ChunkWithinLimit ==
  Chunked => \A i \in 1..Len(chunks) : Len(chunks[i]) <= limit

\* C1 witness: a line longer than the limit was hard-split into several pieces.
C1_Witness ==
  /\ Chunked
  /\ \E i \in 1..Len(chunks) : hardCont[i]
  /\ \E l \in 1..Len(Split(text)) : Len(Split(text)[l]) > limit

\* C2: for a trimmed text, re-joining the chunks in order (newline between
\* chunks split at a line boundary, nothing between pieces of a hard-split
\* line) reproduces the text exactly.
C2_RejoinReproducesText ==
  (Chunked /\ IsTrimmedText(text)) => Rejoin(chunks, hardCont, 1) = text

\* Plain concatenation of the chunks, in order.
RECURSIVE Concat(_)
Concat(cs) == IF cs = <<>> THEN <<>> ELSE Head(cs) \o Concat(Tail(cs))

\* ceil(n / d) for n >= 0, d >= 1.
CeilDiv(n, d) == (n + d - 1) \div d

HasNoNewline(s) == \A i \in 1..Len(s) : s[i] # NL

\* C11: for a text of length L > 0 without a newline, chunkMessage returns
\* exactly ceil(L / limit) chunks, each of length <= limit, whose plain
\* concatenation in order is the text.
C11_SingleLineChunks ==
  (Chunked /\ text # <<>> /\ HasNoNewline(text)) =>
    /\ Len(chunks) = CeilDiv(Len(text), limit)
    /\ \A i \in 1..Len(chunks) : Len(chunks[i]) <= limit
    /\ Concat(chunks) = text

\* C11 witness: a text without a newline was cut into three chunks, the last
\* one shorter than the limit (as 5000 characters at limit 1800).
C11_Witness ==
  /\ Chunked /\ HasNoNewline(text)
  /\ Len(chunks) = 3
  /\ Len(chunks[3]) < limit

-----------------------------------------------------------------------------
(* resolveAuthorName (src/index.js 241-249).                               *)
(* A record is NoEntry (null/undefined) or [author, author_name,           *)
(* author_email]; author is NoAuthor or [name, username, email]. The empty *)
(* string stands for every falsy value (a missing field, null, "").        *)

NoEntry  == [absent |-> "entry"]
NoAuthor == [absent |-> "author"]
Unknown  == "Unknown"

\* JavaScript a || b on strings: a when it is truthy, else b.
Or(a, b) == IF a # "" THEN a ELSE b

\* entry.author?.f : undefined (falsy) when there is no author object.
AuthorField(e, f) == IF e.author = NoAuthor THEN "" ELSE e.author[f]

\* A mutant: the username is consulted before the structured name.
resolveAuthorNameUsernameFirst(e) ==
  IF e = NoEntry THEN Unknown
  ELSE Or(AuthorField(e, "username"),
       Or(AuthorField(e, "name"),
       Or(e.author_name,
       Or(e.author_email,
       Or(AuthorField(e, "email"), Unknown)))))

resolveAuthorName(e) ==
  IF e = NoEntry THEN Unknown
  ELSE Or(AuthorField(e, "name"),
       Or(AuthorField(e, "username"),
       Or(e.author_name,
       Or(e.author_email,
       Or(AuthorField(e, "email"), Unknown)))))

-----------------------------------------------------------------------------
(* SpecAuthor: resolveAuthorName applied to every record over FieldValues. *)

FieldValues == {"", "x", "y"}

AuthorObjects == [name : FieldValues, username : FieldValues, email : FieldValues]

Entries ==
  {NoEntry} \cup [author : {NoAuthor} \cup AuthorObjects,
                  author_name : FieldValues, author_email : FieldValues]

InitAuthor ==
  /\ entry \in Entries
  /\ resolved = NotRun
  /\ ChunkIdle /\ MemberIdle /\ RunIdle /\ CallIdle

CallResolveAuthorName ==
  /\ resolved = NotRun
  /\ resolved' = resolveAuthorName(entry)
  /\ UNCHANGED <<entry, chunkVars, memberVars, runVars, callVars>>

NextAuthor == CallResolveAuthorName

SpecAuthor == InitAuthor /\ [][NextAuthor]_vars

Resolved == resolved # NotRun /\ resolved # Idle

\* The fallback chain of the claim, as a list of candidate values; "email" is
\* the raw author_email field and then the structured author's email.
Chain(e) ==
  <<AuthorField(e, "name"), AuthorField(e, "username"), e.author_name,
    e.author_email, AuthorField(e, "email")>>

\* C9: resolveAuthorName returns the first non-empty value of the chain
\* structured name, username, raw author-name, email, and "Unknown" when there
\* is none or the record is absent; a record with only an email resolves to it.
C9_AuthorFallbackChain ==
  Resolved =>
    IF entry = NoEntry THEN resolved = Unknown
    ELSE LET c == Chain(entry)
         IN  /\ (\A i \in 1..Len(c) : c[i] = "") => resolved = Unknown
             /\ \A i \in 1..Len(c) :
                  (c[i] # "" /\ \A j \in 1..(i - 1) : c[j] = "") => resolved = c[i]

\* C9 witness: a record with only an email field was resolved to that email.
C9_Witness ==
  /\ Resolved
  /\ entry # NoEntry
  /\ entry.author = NoAuthor /\ entry.author_name = "" /\ entry.author_email = "x"
  /\ resolved = "x"

-----------------------------------------------------------------------------
(* buildMemberSummaries (src/index.js 324-384).                            *)

\* The members Map of line 326 is a sequence in insertion order, one summary
\* per name.
NewMember(name) ==
  [name |-> name, commits |-> 0, commitPct |-> 0, mergedMrs |-> 0,
   openedMrs |-> 0, issuesOpened |-> 0, issuesClosed |-> 0]

HasMember(members, name) == \E i \in 1..Len(members) : members[i].name = name

\* ensure(name), lines 328-341, followed by entry.<field> += 1.
Bump(members, name, field) ==
  LET ensured == IF HasMember(members, name) THEN members
                 ELSE Append(members, NewMember(name))
  IN  [i \in 1..Len(ensured) |->
         IF ensured[i].name = name
         THEN [ensured[i] EXCEPT ![field] = @ + 1]
         ELSE ensured[i]]

\* One of the five for loops of lines 343-371.
RECURSIVE Tally(_, _, _)
Tally(members, items, field) ==
  IF items = <<>> THEN members
  ELSE Tally(Bump(members, resolveAuthorName(Head(items)), field), Tail(items), field)

\* Math.round(x) for x = num / den >= 0: the nearest integer, halves up.
RoundDiv(num, den) == (2 * num + den) \div (2 * den)

\* A mutant: the quotient is rounded before it is scaled to a percentage.
CommitPctRoundedFirst(commits, totalCommits) ==
  IF totalCommits # 0 THEN RoundDiv(commits, totalCommits) * 100 ELSE 0

\* Line 375: totalCommits ? Math.round((commits / totalCommits) * 100) : 0.
CommitPct(commits, totalCommits) ==
  IF totalCommits # 0 THEN RoundDiv(100 * commits, totalCommits) ELSE 0

\* String.prototype.localeCompare on the names of the model, as a rank.
NameRank(name) ==
  CASE name = "alice" -> 1
    [] name = "bob" -> 2
    [] name = Unknown -> 3

localeCompare(a, b) == NameRank(a) - NameRank(b)

\* A mutant: the comparator stops after the three counts and leaves names
\* with equal counts in insertion order.
CompareMembersNoName(a, b) ==
  IF b.mergedMrs # a.mergedMrs THEN b.mergedMrs - a.mergedMrs
  ELSE IF b.commits # a.commits THEN b.commits - a.commits
  ELSE IF b.issuesClosed # a.issuesClosed THEN b.issuesClosed - a.issuesClosed
  ELSE 0

\* The comparator of lines 378-383: negative when a sorts before b.
CompareMembers(a, b) ==
  IF b.mergedMrs # a.mergedMrs THEN b.mergedMrs - a.mergedMrs
  ELSE IF b.commits # a.commits THEN b.commits - a.commits
  ELSE IF b.issuesClosed # a.issuesClosed THEN b.issuesClosed - a.issuesClosed
  ELSE localeCompare(a.name, b.name)

\* Array.prototype.sort with that comparator: a stable sort, here by
\* insertion (x goes after every element it does not sort before).
RECURSIVE InsertMember(_, _)
InsertMember(sorted, x) ==
  IF sorted = <<>> THEN <<x>>
  ELSE IF CompareMembers(x, Head(sorted)) < 0 THEN <<x>> \o sorted
  ELSE <<Head(sorted)>> \o InsertMember(Tail(sorted), x)

RECURSIVE SortMembers(_)
SortMembers(list) ==
  IF list = <<>> THEN <<>>
  ELSE InsertMember(SortMembers(SubSeq(list, 1, Len(list) - 1)), list[Len(list)])

buildMemberSummaries(a) ==
  LET totalCommits == Len(a.commits)
      m1 == Tally(<<>>, a.commits, "commits")
      m2 == Tally(m1, a.mrsMerged, "mergedMrs")
      m3 == Tally(m2, a.mrsOpened, "openedMrs")
      m4 == Tally(m3, a.issuesOpened, "issuesOpened")
      m5 == Tally(m4, a.issuesClosed, "issuesClosed")
      withPct == [i \in 1..Len(m5) |->
                    [m5[i] EXCEPT !.commitPct = CommitPct(m5[i].commits, totalCommits)]]
  IN  SortMembers(withPct)

-----------------------------------------------------------------------------
(* SpecMembers: buildMemberSummaries applied to every five lists that hold *)
(* at most MaxRecords records together.                                    *)

Kinds == {"commits", "mrsMerged", "mrsOpened", "issuesOpened", "issuesClosed"}

\* Records as the collectors leave them: a structured author, a raw
\* author-name field only, or no author field at all.
MemberEntries ==
  { [author |-> [name |-> "alice", username |-> "alice", email |-> ""],
     author_name |-> "", author_email |-> ""],
    [author |-> NoAuthor, author_name |-> "bob", author_email |-> "bob@x"],
    [author |-> NoAuthor, author_name |-> "", author_email |-> ""] }

\* The records of one kind among tagged records, in order.
RECURSIVE Pick(_, _)
Pick(items, kind) ==
  IF items = <<>> THEN <<>>
  ELSE IF Head(items)[1] = kind THEN <<Head(items)[2]>> \o Pick(Tail(items), kind)
  ELSE Pick(Tail(items), kind)

InitMembers ==
  /\ \E items \in SeqsUpTo(Kinds \X MemberEntries, MaxRecords) :
       activity = [k \in Kinds |-> Pick(items, k)]
  /\ summaries = NotRun
  /\ ChunkIdle /\ AuthorIdle /\ RunIdle /\ CallIdle

CallBuildMemberSummaries ==
  /\ summaries = NotRun
  /\ summaries' = buildMemberSummaries(activity)
  /\ UNCHANGED <<activity, chunkVars, authorVars, runVars, callVars>>

NextMembers == CallBuildMemberSummaries

SpecMembers == InitMembers /\ [][NextMembers]_vars

Summarised == summaries # NotRun /\ summaries # Idle

\* The ranking of the claim: merged requests descending, then commits
\* descending, then issues closed descending, then name ascending.
RanksBefore(a, b) ==
  \/ a.mergedMrs > b.mergedMrs
  \/ a.mergedMrs = b.mergedMrs /\ a.commits > b.commits
  \/ a.mergedMrs = b.mergedMrs /\ a.commits = b.commits
       /\ a.issuesClosed > b.issuesClosed
  \/ a.mergedMrs = b.mergedMrs /\ a.commits = b.commits
       /\ a.issuesClosed = b.issuesClosed /\ NameRank(a.name) < NameRank(b.name)

SameCounts(a, b) ==
  a.mergedMrs = b.mergedMrs /\ a.commits = b.commits /\ a.issuesClosed = b.issuesClosed

\* C7: the summaries come in the strict total order merged desc, commits
\* desc, issues closed desc, name asc, and no two summaries share a name.
C7_StrictTotalRanking ==
  Summarised =>
    \A i, j \in 1..Len(summaries) :
      i < j => /\ summaries[i].name # summaries[j].name
               /\ RanksBefore(summaries[i], summaries[j])

\* C7 witness: two contributors with equal counts, the later name met first
\* in the input, came out with the earlier name first.
C7_Witness ==
  /\ Summarised
  /\ Len(activity.commits) >= 2
  /\ resolveAuthorName(activity.commits[1]) = "bob"
  /\ \E i \in 1..(Len(summaries) - 1) :
       /\ SameCounts(summaries[i], summaries[i + 1])
       /\ summaries[i].name = "alice" /\ summaries[i + 1].name = "bob"

RECURSIVE SumPct(_)
SumPct(list) == IF list = <<>> THEN 0 ELSE Head(list).commitPct + SumPct(Tail(list))

Abs(n) == IF n < 0 THEN -n ELSE n

Committers(list) == {i \in 1..Len(list) : list[i].commits > 0}

\* C8: with total > 0 every commit percentage is the integer nearest to
\* 100 * commits / total, so the percentages sum to 100 within rounding (off
\* by at most half a point per committing contributor); with total = 0 every
\* percentage is 0.
C8_CommitPctSumsTo100 ==
  Summarised =>
    LET total == Len(activity.commits)
    IN  IF total = 0
        THEN \A i \in 1..Len(summaries) : summaries[i].commitPct = 0
        ELSE /\ \A i \in 1..Len(summaries) :
                  2 * Abs(100 * summaries[i].commits - summaries[i].commitPct * total)
                    <= total
             /\ 2 * Abs(SumPct(summaries) - 100) <= Cardinality(Committers(summaries))

\* C8 witness: three contributors with one commit each got 33 each, 99 in all.
C8_Witness ==
  /\ Summarised
  /\ Len(activity.commits) = 3
  /\ Len(summaries) = 3
  /\ SumPct(summaries) = 99

\* C8 second case reached: contributors without any commit have 0 percent.
C8_ZeroTotalReached ==
  Summarised /\ Len(activity.commits) = 0 /\ Len(summaries) > 0

-----------------------------------------------------------------------------
(* The run of main() (src/index.js 948-1123).                              *)
(*                                                                         *)
(* Identifiers and configuration values are texts (sequences of            *)
(* characters); timestamps are integers. Every HTTP request is one action  *)
(* per outcome: the response arrives, or the request fails and the await   *)
(* throws. A paginated fetch (fetchAllPaged, fetchGithubX) is one request  *)
(* here: its pages are awaited one after the other and any failing page    *)
(* throws out of the whole fetch. process.env is fixed for the run; a      *)
(* configuration value is drawn by the action that first reads it.         *)

\* A mutant of parseCsv: the entries are not trimmed.
parseCsvNoTrim(raw) == SelectSeq(SplitBy(raw, ","), LAMBDA x : x # <<>>)

\* parseCsv, lines 77-82: split on commas, trim, drop the empty entries.
parseCsv(raw) ==
  LET parts   == SplitBy(raw, ",")
      trimmed == [i \in 1..Len(parts) |-> Trim(parts[i])]
  IN  SelectSeq(trimmed, LAMBDA x : x # <<>>)

\* Number(s) on a trimmed entry, lines 233-234: the number of a decimal
\* numeral, written as the canonical numeral (String of it), and NaN for an
\* entry that is no numeral.
RECURSIVE StripZeros(_)
StripZeros(s) == IF Len(s) > 1 /\ Head(s) = "0" THEN StripZeros(Tail(s)) ELSE s

Digits == {"0", "1", "2", "3"}

Number(s) ==
  IF s # <<>> /\ \A i \in 1..Len(s) : s[i] \in Digits THEN StripZeros(s)
  ELSE <<"N", "a", "N">>

\* String.prototype.toLowerCase on the characters of the model.
LowerChar(c) == CASE c = "O" -> "o" [] c = "A" -> "a" [] OTHER -> c

\* normalizeRepoName, lines 97-99.
normalizeRepoName(name) ==
  LET t == Trim(name) IN [i \in 1..Len(t) |-> LowerChar(t[i])]

\* A Map as a sequence of [key, value] in insertion order: set() replaces the
\* value of a present key in place and appends an absent one.
MapHas(m, k) == \E i \in 1..Len(m) : m[i].key = k

MapSet(m, k, v) ==
  IF MapHas(m, k)
  THEN [i \in 1..Len(m) |-> IF m[i].key = k THEN [key |-> k, value |-> v] ELSE m[i]]
  ELSE Append(m, [key |-> k, value |-> v])

MapDelete(m, k) == SelectSeq(m, LAMBDA e : e.key # k)

MapKeys(m) == [i \in 1..Len(m) |-> m[i].key]

MapValues(m) == [i \in 1..Len(m) |-> m[i].value]

\* The two caches are Maps whose order is never read: sets of [key, value].
CacheHas(c, k) == \E e \in c : e.key = k

CacheGet(c, k) == (CHOOSE e \in c : e.key = k).value

CacheSet(c, k, v) == {e \in c : e.key # k} \cup {[key |-> k, value |-> v]}

CacheDelete(c, k) == {e \in c : e.key # k}

\* Repository metadata as the caches hold it; NotFound is the null marker.
NotFound == [found |-> FALSE, name |-> <<>>]

InfoOf(name) == [found |-> TRUE, name |-> name]

\* A request that can fail, and the record of a fatal end.
Req(platform, kind, target) == [platform |-> platform, kind |-> kind, target |-> target]

NoReq == Req("none", "none", <<>>)

NoFatal == [msg |-> "", req |-> NoReq]

NoPost == [g |-> 0, c |-> 0]

NoEnv == [mode |-> "", nameInc |-> "", nameExc |-> "", extras |-> <<>>, excludes |-> <<>>]

\* process.exit(1) after console.error(msg): the run is over.
Halt(msg, req) ==
  /\ pc' = "exited"
  /\ exitCode' = "nonzero"
  /\ fatal' = [msg |-> msg, req |-> req]

\* A rejected request that nothing catches: the rejection reaches
\* main().catch, lines 1120-1123, which logs "Failed:" and exits with 1.
Uncaught(req) ==
  /\ Halt("Failed:", req)
  /\ failures' = failures \cup {req}

-----------------------------------------------------------------------------
(* The world the run talks to: what the listings and fetches may answer.   *)

\* RegExp.prototype.test for the patterns and targets of the model; the
\* empty pattern stands for an unset variable (no filter).
RegexMatches ==
  { <<"App", "Team / App">>, <<"lib", "team/lib">>,
    <<"^Team", "Team / App">>, <<"^Team", "Team / Lib">> }

RegexTest(pattern, target) == <<pattern, target>> \in RegexMatches

Project(id, name, nameNs, pathNs) ==
  [id |-> id, name |-> name, name_with_namespace |-> nameNs, path_with_namespace |-> pathNs]

\* The name the platform gives the project with this id.
NameOf(id) == <<"p">> \o id

P1 == Project(<<"1">>, NameOf(<<"1">>), "Team / App", "team/app")
P2 == Project(<<"2">>, NameOf(<<"2">>), "Team / Lib", "team/lib")

\* What a group or user listing may return.
GitlabListings == { <<>>, <<P1, P2>>, <<P2>> }

\* The window of the run and the start of the month, as main computes them
\* (lines 949-950).
RunWindows == { [since |-> 2, until |-> 6, monthStart |-> 1] }

\* A timestamp field that is null.
NoTime == -1

\* What the commits, merge-request and issue fetches of a project may return.
GitlabCommitResponses ==
  { <<>>,
    << [author_name |-> "bob", author_email |-> "bob@x", created_at |-> 3] >> }

GitlabMrResponses ==
  { <<>>,
    << [state |-> "merged", created_at |-> 3, updated_at |-> 4, merged_at |-> 4,
        author |-> [name |-> "alice", username |-> "alice", email |-> ""]] >> }

GitlabIssueResponses ==
  { <<>>,
    << [created_at |-> 1, closed_at |-> 4,
        author |-> [name |-> "alice", username |-> "alice", email |-> ""]] >> }

-----------------------------------------------------------------------------
(* discoverProjects (src/index.js 183-239).                                *)

\* The listings discoverProjects fetches, in order: lines 196-216.
GitlabSources(mode, groupIds, userId) ==
  (IF mode \in {"group", "mixed"}
   THEN [i \in 1..Len(groupIds) |-> [kind |-> "group", id |-> groupIds[i]]]
   ELSE <<>>)
  \o (IF mode \in {"user", "mixed"} /\ userId # <<>>
      THEN << [kind |-> "user", id |-> userId] >>
      ELSE <<>>)

\* Lines 218-219: uniq, keyed by id.
RECURSIVE UniqById(_, _)
UniqById(m, projects) ==
  IF projects = <<>> THEN m
  ELSE UniqById(MapSet(m, Head(projects).id, Head(projects)), Tail(projects))

\* The filter of lines 221-227.
PassesNameFilters(p, nameInc, nameExc) ==
  LET nameTarget == p.name_with_namespace
      pathTarget == p.path_with_namespace
  IN  /\ ~(nameInc # "" /\ ~RegexTest(nameInc, nameTarget) /\ ~RegexTest(nameInc, pathTarget))
      /\ ~(nameExc # "" /\ (RegexTest(nameExc, nameTarget) \/ RegexTest(nameExc, pathTarget)))

\* Line 235: the force-included ids that are not excluded join the map.
RECURSIVE AddExtras(_, _, _)
AddExtras(m, extras, excludes) ==
  IF extras = <<>> THEN m
  ELSE AddExtras(
         IF \E i \in 1..Len(excludes) : excludes[i] = Head(extras) THEN m
         ELSE MapSet(m, Head(extras), Project(Head(extras), <<>>, "", "")),
         Tail(extras), excludes)

\* A mutant: the loop of line 236 is missing.
DeleteNone(m, keys) == m

\* Line 236: every excluded id leaves the map.
RECURSIVE DeleteAll(_, _)
DeleteAll(m, keys) ==
  IF keys = <<>> THEN m ELSE DeleteAll(MapDelete(m, Head(keys)), Tail(keys))

\* Lines 218-229: the listed projects, unique and filtered.
FilteredProjects(projects, cfg) ==
  SelectSeq(MapValues(UniqById(<<>>, projects)),
            LAMBDA q : PassesNameFilters(q, cfg.nameInc, cfg.nameExc))

\* Lines 229-238: the identifiers discoverProjects returns. The keys are
\* numbers, written as canonical numerals: String of a key is the key.
DiscoveredIds(projects, cfg) ==
  LET uniq == UniqById(<<>>, FilteredProjects(projects, cfg))
  IN  MapKeys(DeleteAll(AddExtras(uniq, cfg.extras, cfg.excludes), cfg.excludes))

\* Lines 230-232: the projects that passed the filters enter projectCache.
RECURSIVE CacheProjects(_, _)
CacheProjects(cache, projects) ==
  IF projects = <<>> THEN cache
  ELSE CacheProjects(CacheSet(cache, Head(projects).id, InfoOf(Head(projects).name)),
                     Tail(projects))

-----------------------------------------------------------------------------
(* collectForProject (src/index.js 620-731).                               *)

\* A mutant of isAfter: an instant is after itself.
IsAfterOrSame(a, b) == a >= b

IsAfter(a, b) == a > b

IsBefore(a, b) == a < b

\* A collectForProject call: the request it awaits and what it fetched.
NewGitlabCollector(id) ==
  [projectId |-> id, step |-> "commits", commits |-> <<>>, mrsUpdated |-> <<>>,
   issuesUpdated |-> <<>>, projectInfo |-> NotFound]

\* Promise.all(ids.map(collectForProject)), line 958: every call runs to its
\* first await, the commits request.
LaunchGitlab(ids) == [i \in 1..Len(ids) |-> NewGitlabCollector(ids[i])]

\* simplifyCommit, simplifyMr, simplifyIssue (lines 675-715): the fields the
\* rest of the run reads. simplifyIssue copies no author field.
simplifyCommit(commit, id) ==
  [author |-> NoAuthor, author_name |-> commit.author_name,
   author_email |-> commit.author_email, created_at |-> commit.created_at,
   merged_at |-> NoTime, closed_at |-> NoTime, projectId |-> id]

simplifyMr(mr, id) ==
  [author |-> mr.author, author_name |-> "", author_email |-> "",
   created_at |-> mr.created_at, merged_at |-> mr.merged_at, closed_at |-> NoTime,
   projectId |-> id]

simplifyIssue(issue, id) ==
  [author |-> NoAuthor, author_name |-> "", author_email |-> "",
   created_at |-> issue.created_at, merged_at |-> NoTime,
   closed_at |-> issue.closed_at, projectId |-> id]

MapSeq(list, F(_)) == [i \in 1..Len(list) |-> F(list[i])]

\* The ProjectResult of lines 717-730 from what the call fetched.
GitlabResult(c, w) ==
  LET id == c.projectId
      InWindow(t) == IsAfter(t, w.since) /\ IsBefore(t, w.until)
      InMonth(t)  == ~IsBefore(t, w.monthStart) /\ IsBefore(t, w.until)
      mrsOpened == SelectSeq(c.mrsUpdated, LAMBDA mr : InWindow(mr.created_at))
      mrsMerged == SelectSeq(c.mrsUpdated, LAMBDA mr :
                     mr.state = "merged" /\ mr.merged_at # NoTime /\ InWindow(mr.merged_at))
      issuesOpened == SelectSeq(c.issuesUpdated, LAMBDA iss : InWindow(iss.created_at))
      issuesClosed == SelectSeq(c.issuesUpdated, LAMBDA iss :
                        iss.closed_at # NoTime /\ InWindow(iss.closed_at))
      monthIssuesOpened == SelectSeq(c.issuesUpdated, LAMBDA iss : InMonth(iss.created_at))
      monthIssuesClosed == SelectSeq(c.issuesUpdated, LAMBDA iss :
                             iss.closed_at # NoTime /\ InMonth(iss.closed_at))
  IN  [projectId |-> id,
       projectName |-> IF c.projectInfo.name # <<>> THEN c.projectInfo.name ELSE id,
       projectInfo |-> c.projectInfo,
       commits |-> MapSeq(c.commits, LAMBDA x : simplifyCommit(x, id)),
       mrsOpened |-> MapSeq(mrsOpened, LAMBDA x : simplifyMr(x, id)),
       mrsMerged |-> MapSeq(mrsMerged, LAMBDA x : simplifyMr(x, id)),
       issuesOpened |-> MapSeq(issuesOpened, LAMBDA x : simplifyIssue(x, id)),
       issuesClosed |-> MapSeq(issuesClosed, LAMBDA x : simplifyIssue(x, id)),
       monthIssuesOpened |-> MapSeq(monthIssuesOpened, LAMBDA x : simplifyIssue(x, id)),
       monthIssuesClosed |-> MapSeq(monthIssuesClosed, LAMBDA x : simplifyIssue(x, id))]

-----------------------------------------------------------------------------
(* The configurations and the actions of the run: start and GitLab.        *)

\* GITLAB_PROJECT_IDS as set in the environment (empty: unset).
RunStaticGitlab == { <<>>, <<"1", ",", " ", "2">> }

\* What discoverProjects reads (lines 184-192, 233-234).
RunGitlabConfigs ==
  [ mode : {"group", "mixed"},
    GROUP_IDS : { <<>>, <<"g", ",", "h">> },
    USER_ID : { <<>>, <<"u">> },
    nameInc : {""}, nameExc : {""},
    EXTRA_PROJECT_IDS : { <<>> }, EXCLUDE_PROJECT_IDS : { <<>> } ]

\* The module state before main runs (lines 10-61): nothing collected,
\* nothing cached, nothing written or posted.
FreshRun ==
  /\ exitCode = "running"
  /\ fatal = NoFatal
  /\ stdout = ""
  /\ failures = {}
  /\ window = [since |-> 0, until |-> 0, monthStart |-> 0]
  /\ github = FALSE
  /\ staticGitlabIds = <<>>
  /\ gitlabProjectIds = <<>>
  /\ glEnv = NoEnv
  /\ glPending = <<>>
  /\ glProjects = <<>>
  /\ projectCache = {}
  /\ glCollectors = <<>>
  /\ gitlabResults = <<>>
  /\ githubStatic = <<>>
  /\ githubRepos = <<>>
  /\ ghEnv = NoEnv
  /\ ghPending = <<>>
  /\ repoMap = <<>>
  /\ githubRepoCache = {}
  /\ ghCollectors = <<>>
  /\ githubResults = <<>>
  /\ messages = <<>>
  /\ posting = NoPost
  /\ sent = <<>>
  /\ ChunkIdle /\ AuthorIdle /\ MemberIdle /\ CallIdle

InitRun ==
  /\ pc = "start"
  /\ FreshRun

pureVars == <<chunkVars, authorVars, memberVars, callVars>>

\* Lines 13-16: DISCORD_WEBHOOK_URL or GITLAB_TOKEN is missing.
StartMissingCredentials ==
  /\ pc = "start"
  /\ Halt("Missing DISCORD_WEBHOOK_URL or GITLAB_TOKEN.", NoReq)
  /\ UNCHANGED <<stdout, failures, window, github, gitlabVars, githubVars, postVars, pureVars>>

\* Lines 948-958 with a static list: it is used as it is and the collectors
\* are started at once.
StartStatic ==
  /\ pc = "start"
  /\ \E token \in BOOLEAN, w \in RunWindows, raw \in RunStaticGitlab :
       /\ parseCsv(raw) # <<>>
       /\ github' = token
       /\ window' = w
       /\ staticGitlabIds' = parseCsv(raw)
       /\ gitlabProjectIds' = parseCsv(raw)
       /\ glCollectors' = LaunchGitlab(parseCsv(raw))
  /\ pc' = "gitlabCollect"
  /\ UNCHANGED <<exitCode, fatal, stdout, failures, glEnv, glPending, glProjects,
                 projectCache, gitlabResults, githubVars, postVars, pureVars>>

\* Lines 948-954 without a static list: discoverProjects runs to its first
\* listing request.
StartDiscovery ==
  /\ pc = "start"
  /\ \E token \in BOOLEAN, w \in RunWindows, raw \in RunStaticGitlab, cfg \in RunGitlabConfigs :
       /\ parseCsv(raw) = <<>>
       /\ github' = token
       /\ window' = w
       /\ glEnv' = [mode |-> cfg.mode, nameInc |-> cfg.nameInc, nameExc |-> cfg.nameExc,
                    extras |-> MapSeq(parseCsv(cfg.EXTRA_PROJECT_IDS), Number),
                    excludes |-> MapSeq(parseCsv(cfg.EXCLUDE_PROJECT_IDS), Number)]
       /\ glPending' = GitlabSources(cfg.mode, parseCsv(cfg.GROUP_IDS), cfg.USER_ID)
  /\ pc' = "gitlabDiscover"
  /\ UNCHANGED <<exitCode, fatal, stdout, failures, staticGitlabIds, gitlabProjectIds,
                 glProjects, projectCache, glCollectors, gitlabResults, githubVars,
                 postVars, pureVars>>

\* A group or user listing answers (fetchAllPaged, lines 198-215).
GitlabListingOk ==
  /\ pc = "gitlabDiscover"
  /\ glPending # <<>>
  /\ \E listing \in GitlabListings : glProjects' = glProjects \o listing
  /\ glPending' = Tail(glPending)
  /\ UNCHANGED <<mainVars, staticGitlabIds, gitlabProjectIds, glEnv, projectCache,
                 glCollectors, gitlabResults, githubVars, postVars, pureVars>>

\* A group or user listing fails: fetchAllPaged throws, discoverProjects has
\* no try around it, and neither has main.
GitlabListingFails ==
  /\ pc = "gitlabDiscover"
  /\ glPending # <<>>
  /\ Uncaught(Req("gitlab", "listing", Head(glPending).id))
  /\ UNCHANGED <<stdout, window, github, gitlabVars, githubVars, postVars, pureVars>>

\* Lines 218-238, then main lines 957-958: the discovered ids, and the
\* collectors started on them.
GitlabDiscovered ==
  /\ pc = "gitlabDiscover"
  /\ glPending = <<>>
  /\ LET ids == DiscoveredIds(glProjects, glEnv)
     IN  /\ gitlabProjectIds' = ids
         /\ glCollectors' = LaunchGitlab(ids)
  /\ projectCache' = CacheProjects(projectCache, FilteredProjects(glProjects, glEnv))
  /\ glEnv' = NoEnv
  /\ glProjects' = <<>>
  /\ pc' = "gitlabCollect"
  /\ UNCHANGED <<exitCode, fatal, stdout, failures, window, github, staticGitlabIds,
                 glPending, gitlabResults, githubVars, postVars, pureVars>>

\* What a fetch of a project may answer: project 2 of this world is a
\* dormant project, with no commit, merge request or issue.
GitlabResponses(step, id) ==
  IF id = <<"2">> THEN { <<>> }
  ELSE CASE step = "commits" -> GitlabCommitResponses
         [] step = "mrs" -> GitlabMrResponses
         [] step = "issues" -> GitlabIssueResponses

\* getProjectInfo up to its first await (lines 63-67): a cached value, the
\* not-found marker included, is returned without a request.
AfterIssues(c, cache) ==
  IF CacheHas(cache, c.projectId)
  THEN [c EXCEPT !.step = "done", !.projectInfo = CacheGet(cache, c.projectId)]
  ELSE [c EXCEPT !.step = "info"]

\* The commits, merge-request or issue fetch of one collector answers
\* (lines 628-649); the collector goes on to its next request.
GitlabFetchOk(i) ==
  /\ pc = "gitlabCollect"
  /\ glCollectors[i].step \in {"commits", "mrs", "issues"}
  /\ \E data \in GitlabResponses(glCollectors[i].step, glCollectors[i].projectId) :
       LET c == glCollectors[i]
       IN  glCollectors' =
             [glCollectors EXCEPT ![i] =
                CASE c.step = "commits" -> [c EXCEPT !.commits = data, !.step = "mrs"]
                  [] c.step = "mrs" -> [c EXCEPT !.mrsUpdated = data, !.step = "issues"]
                  [] c.step = "issues" ->
                       AfterIssues([c EXCEPT !.issuesUpdated = data], projectCache)]
  /\ UNCHANGED <<mainVars, staticGitlabIds, gitlabProjectIds, glEnv, glPending, glProjects,
                 projectCache, gitlabResults, githubVars, postVars, pureVars>>

\* The fetch fails: collectForProject has no try around its fetches, so its
\* promise rejects, Promise.all rejects and main().catch ends the process
\* while the other collectors are still waiting.
GitlabFetchFails(i) ==
  /\ pc = "gitlabCollect"
  /\ glCollectors[i].step \in {"commits", "mrs", "issues"}
  /\ Uncaught(Req("gitlab", glCollectors[i].step, glCollectors[i].projectId))
  /\ UNCHANGED <<stdout, window, github, gitlabVars, githubVars, postVars, pureVars>>

\* getProjectInfo, lines 67-69: the project answers and is cached.
GitlabInfoOk(i) ==
  /\ pc = "gitlabCollect"
  /\ glCollectors[i].step = "info"
  /\ LET id == glCollectors[i].projectId
     IN  /\ projectCache' = CacheSet(projectCache, id, InfoOf(NameOf(id)))
         /\ glCollectors' = [glCollectors EXCEPT ![i].step = "done",
                                                 ![i].projectInfo = InfoOf(NameOf(id))]
  /\ UNCHANGED <<mainVars, staticGitlabIds, gitlabProjectIds, glEnv, glPending, glProjects,
                 gitlabResults, githubVars, postVars, pureVars>>

\* getProjectInfo, lines 70-74: the lookup fails, is logged, and null is
\* cached and returned.
GitlabInfoFails(i) ==
  /\ pc = "gitlabCollect"
  /\ glCollectors[i].step = "info"
  /\ LET id == glCollectors[i].projectId
     IN  /\ projectCache' = CacheSet(projectCache, id, NotFound)
         /\ glCollectors' = [glCollectors EXCEPT ![i].step = "done",
                                                 ![i].projectInfo = NotFound]
         /\ failures' = failures \cup {Req("gitlab", "info", id)}
  /\ UNCHANGED <<pc, exitCode, fatal, stdout, window, github, staticGitlabIds,
                 gitlabProjectIds, glEnv, glPending, glProjects, gitlabResults,
                 githubVars, postVars, pureVars>>

\* Promise.all of line 958 has resolved: every collector returned.
GitlabSettled ==
  /\ pc = "gitlabCollect"
  /\ \A i \in 1..Len(glCollectors) : glCollectors[i].step = "done"

GitlabResultsNow == [i \in 1..Len(glCollectors) |-> GitlabResult(glCollectors[i], window)]

-----------------------------------------------------------------------------
(* discoverGithubRepos (src/index.js 117-181).                             *)

GithubRepo(fullName, name) == [full_name |-> fullName, name |-> name]

R1 == GithubRepo(<<"O", "/", "a">>, <<"a">>)

\* What an organization or user repository listing may return.
GithubListings == { <<>>, <<R1>> }

\* GITHUB_REPOS as set in the environment (empty: unset).
RunStaticGithub == { <<>>, <<"o", "/", "a">> }

\* What discoverGithubRepos reads (lines 119-125).
RunGithubConfigs ==
  [ mode : {"org", "mixed"},
    GITHUB_ORGS : { <<>>, <<"o">> },
    GITHUB_USER : { <<>> },
    nameInc : {""}, nameExc : {""},
    GITHUB_EXTRA_REPOS : { <<>> }, GITHUB_EXCLUDE_REPOS : { <<>> } ]

\* The listings discoverGithubRepos fetches, in order: lines 140-167. The
\* user listing is /users/<name>/repos, or /user/repos without a name.
GithubSources(mode, orgs, username) ==
  (IF mode \in {"org", "mixed"}
   THEN [i \in 1..Len(orgs) |-> [kind |-> "org", id |-> orgs[i]]]
   ELSE <<>>)
  \o (IF mode \in {"user", "mixed"}
      THEN << [kind |-> "user", id |-> username] >>
      ELSE <<>>)

\* includeRepo, lines 129-138: whether the repository is taken.
IncludesRepo(repo, cfg) ==
  /\ repo.full_name # <<>>
  /\ ~(\E i \in 1..Len(cfg.excludes) : cfg.excludes[i] = normalizeRepoName(repo.full_name))
  /\ ~(cfg.nameInc # "" /\ ~RegexTest(cfg.nameInc, repo.full_name)
                        /\ ~RegexTest(cfg.nameInc, repo.name))
  /\ ~(cfg.nameExc # "" /\ (RegexTest(cfg.nameExc, repo.full_name)
                            \/ RegexTest(cfg.nameExc, repo.name)))

\* repos.forEach(includeRepo) on repoMap and on githubRepoCache.
RECURSIVE IncludeInMap(_, _, _)
IncludeInMap(m, repos, cfg) ==
  IF repos = <<>> THEN m
  ELSE IncludeInMap(
         IF IncludesRepo(Head(repos), cfg)
         THEN MapSet(m, normalizeRepoName(Head(repos).full_name), Head(repos).full_name)
         ELSE m,
         Tail(repos), cfg)

RECURSIVE IncludeInCache(_, _, _)
IncludeInCache(cache, repos, cfg) ==
  IF repos = <<>> THEN cache
  ELSE IncludeInCache(
         IF IncludesRepo(Head(repos), cfg)
         THEN CacheSet(cache, normalizeRepoName(Head(repos).full_name),
                       [found |-> TRUE, name |-> Head(repos).name,
                        full_name |-> Head(repos).full_name])
         ELSE cache,
         Tail(repos), cfg)

\* Lines 169-173: the extra repositories that are not excluded.
RECURSIVE AddExtraRepos(_, _, _)
AddExtraRepos(m, extras, excludes) ==
  IF extras = <<>> THEN m
  ELSE AddExtraRepos(
         IF \E i \in 1..Len(excludes) : excludes[i] = normalizeRepoName(Head(extras)) THEN m
         ELSE MapSet(m, normalizeRepoName(Head(extras)), Head(extras)),
         Tail(extras), excludes)

RECURSIVE CacheDeleteAll(_, _)
CacheDeleteAll(cache, keys) ==
  IF keys = <<>> THEN cache ELSE CacheDeleteAll(CacheDelete(cache, Head(keys)), Tail(keys))

\* Lines 169-180: the names discoverGithubRepos returns.
DiscoveredRepos(m, cfg) ==
  MapValues(DeleteAll(AddExtraRepos(m, cfg.extras, cfg.excludes), cfg.excludes))

-----------------------------------------------------------------------------
(* collectForGithubRepo (src/index.js 788-946).                            *)

GithubNotFound == [found |-> FALSE, name |-> <<>>, full_name |-> <<>>]

GithubKinds == {"commits", "pulls", "issues"}

\* What the commits, pulls and issues fetches of a repository may return.
GithubCommitResponses ==
  { <<>>,
    << [login |-> "alice",
        commitAuthor |-> [name |-> "alice", email |-> "", date |-> 3],
        committer |-> [name |-> "", email |-> "", date |-> NoTime]] >> }

GithubPullResponses ==
  { <<>>,
    << [login |-> "bob", created_at |-> 3, updated_at |-> 4, merged_at |-> 4] >> }

GithubIssueResponses ==
  { <<>>,
    << [login |-> "bob", created_at |-> 1, closed_at |-> 4, pull_request |-> FALSE],
       [login |-> "bob", created_at |-> 3, closed_at |-> 4, pull_request |-> TRUE] >> }

GithubResponses(kind) ==
  CASE kind = "commits" -> GithubCommitResponses
    [] kind = "pulls" -> GithubPullResponses
    [] kind = "issues" -> GithubIssueResponses

\* fetchGithubIssues, line 780: pull requests are dropped from the issues.
StoredResponse(kind, data) ==
  IF kind = "issues" THEN SelectSeq(data, LAMBDA item : ~item.pull_request) ELSE data

\* A collectForGithubRepo call up to its first await (lines 788-819): with
\* the repository in githubRepoCache it issues its three fetches at once,
\* without it the metadata request first.
NewGithubCollector(fullName, cache) ==
  LET key == normalizeRepoName(fullName)
      hit == CacheHas(cache, key) /\ CacheGet(cache, key).found
  IN  [fullName |-> fullName,
       step |-> IF hit THEN "fetching" ELSE "info",
       repoInfo |-> IF hit THEN CacheGet(cache, key) ELSE GithubNotFound,
       got |-> {},
       commits |-> <<>>, pulls |-> <<>>, issues |-> <<>>]

LaunchGithub(repos, cache) ==
  [i \in 1..Len(repos) |-> NewGithubCollector(repos[i], cache)]

\* Lines 821-857: one fetched commit, normalized.
GithubCommit(commit, id) ==
  LET authorName == Or(commit.commitAuthor.name, Or(commit.login, commit.committer.name))
      authorEmail == Or(commit.commitAuthor.email, commit.committer.email)
      author == IF commit.login # ""
                THEN [name |-> commit.login, username |-> commit.login, email |-> ""]
                ELSE IF authorName # ""
                THEN [name |-> authorName, username |-> authorName, email |-> ""]
                ELSE NoAuthor
  IN  [author |-> author, author_name |-> authorName, author_email |-> authorEmail,
       created_at |-> IF commit.commitAuthor.date # NoTime THEN commit.commitAuthor.date
                      ELSE commit.committer.date,
       merged_at |-> NoTime, closed_at |-> NoTime, projectId |-> id]

\* Lines 859-876 and 890-906: a pull request and an issue, normalized.
GithubAuthor(login) ==
  IF login # "" THEN [name |-> login, username |-> login, email |-> ""] ELSE NoAuthor

GithubPull(pull, id) ==
  [author |-> GithubAuthor(pull.login), author_name |-> "", author_email |-> "",
   created_at |-> pull.created_at, merged_at |-> pull.merged_at, closed_at |-> NoTime,
   projectId |-> id]

GithubIssue(issue, id) ==
  [author |-> GithubAuthor(issue.login), author_name |-> "", author_email |-> "",
   created_at |-> issue.created_at, merged_at |-> NoTime, closed_at |-> issue.closed_at,
   projectId |-> id]

\* The ProjectResult of lines 932-945 from what the call fetched.
GithubResult(c, w) ==
  LET id == IF c.repoInfo.full_name # <<>> THEN c.repoInfo.full_name ELSE c.fullName
      parts == SplitBy(c.fullName, "/")
      repo == IF Len(parts) >= 2 THEN parts[2] ELSE <<>>
      InWindow(t) == IsAfter(t, w.since) /\ IsBefore(t, w.until)
      InMonth(t)  == ~IsBefore(t, w.monthStart) /\ IsBefore(t, w.until)
      commits == SelectSeq(MapSeq(c.commits, LAMBDA x : GithubCommit(x, id)),
                           LAMBDA x : x.created_at # NoTime /\ InWindow(x.created_at))
      pulls == MapSeq(c.pulls, LAMBDA x : GithubPull(x, id))
      issues == MapSeq(c.issues, LAMBDA x : GithubIssue(x, id))
  IN  [projectId |-> id,
       projectName |-> IF c.repoInfo.name # <<>> THEN c.repoInfo.name
                       ELSE IF repo # <<>> THEN repo ELSE c.fullName,
       projectInfo |-> [found |-> c.repoInfo.found, name |-> c.repoInfo.name],
       commits |-> commits,
       mrsOpened |-> SelectSeq(pulls, LAMBDA x :
                       x.created_at # NoTime /\ InWindow(x.created_at)),
       mrsMerged |-> SelectSeq(pulls, LAMBDA x :
                       x.merged_at # NoTime /\ InWindow(x.merged_at)),
       issuesOpened |-> SelectSeq(issues, LAMBDA x :
                          x.created_at # NoTime /\ InWindow(x.created_at)),
       issuesClosed |-> SelectSeq(issues, LAMBDA x :
                          x.closed_at # NoTime /\ InWindow(x.closed_at)),
       monthIssuesOpened |-> SelectSeq(issues, LAMBDA x :
                               x.created_at # NoTime /\ InMonth(x.created_at)),
       monthIssuesClosed |-> SelectSeq(issues, LAMBDA x :
                               x.closed_at # NoTime /\ InMonth(x.closed_at))]

-----------------------------------------------------------------------------
(* The actions of the run: GitHub.                                         *)

\* Main after Promise.all of line 958, lines 961-969, with a GitHub client
\* and a static GITHUB_REPOS: the collectors are started on the list.
GithubStaticStart ==
  /\ GitlabSettled
  /\ github
  /\ \E raw \in RunStaticGithub :
       /\ parseCsv(raw) # <<>>
       /\ githubStatic' = parseCsv(raw)
       /\ githubRepos' = parseCsv(raw)
       /\ ghCollectors' = LaunchGithub(parseCsv(raw), githubRepoCache)
  /\ gitlabResults' = GitlabResultsNow
  /\ glCollectors' = <<>>
  /\ pc' = "githubCollect"
  /\ UNCHANGED <<exitCode, fatal, stdout, failures, window, github, staticGitlabIds,
                 gitlabProjectIds, glEnv, glPending, glProjects, projectCache,
                 ghEnv, ghPending, repoMap, githubRepoCache, githubResults,
                 postVars, pureVars>>

\* The same with a GitHub client and no static list: discoverGithubRepos
\* runs to its first listing request.
GithubDiscoveryStart ==
  /\ GitlabSettled
  /\ github
  /\ \E raw \in RunStaticGithub, cfg \in RunGithubConfigs :
       /\ parseCsv(raw) = <<>>
       /\ ghEnv' = [mode |-> cfg.mode, nameInc |-> cfg.nameInc, nameExc |-> cfg.nameExc,
                    extras |-> parseCsv(cfg.GITHUB_EXTRA_REPOS),
                    excludes |-> MapSeq(parseCsv(cfg.GITHUB_EXCLUDE_REPOS),
                                        LAMBDA x : normalizeRepoName(x))]
       /\ ghPending' = GithubSources(cfg.mode, parseCsv(cfg.GITHUB_ORGS), cfg.GITHUB_USER)
  /\ gitlabResults' = GitlabResultsNow
  /\ glCollectors' = <<>>
  /\ pc' = "githubDiscover"
  /\ UNCHANGED <<exitCode, fatal, stdout, failures, window, github, staticGitlabIds,
                 gitlabProjectIds, glEnv, glPending, glProjects, projectCache,
                 githubStatic, githubRepos, repoMap, githubRepoCache, ghCollectors,
                 githubResults, postVars, pureVars>>

\* The same without a GitHub client (no GITHUB_TOKEN): neither discovery nor
\* collection happens, whatever GITHUB_REPOS holds (lines 962 and 966).
GithubUnavailable ==
  /\ GitlabSettled
  /\ ~github
  /\ \E raw \in RunStaticGithub :
       /\ githubStatic' = parseCsv(raw)
       /\ githubRepos' = parseCsv(raw)
  /\ gitlabResults' = GitlabResultsNow
  /\ glCollectors' = <<>>
  /\ githubResults' = <<>>
  /\ pc' = "collected"
  /\ UNCHANGED <<exitCode, fatal, stdout, failures, window, github, staticGitlabIds,
                 gitlabProjectIds, glEnv, glPending, glProjects, projectCache,
                 ghEnv, ghPending, repoMap, githubRepoCache, ghCollectors,
                 postVars, pureVars>>

\* An organization or user listing answers (lines 143-144, 154-162).
GithubListingOk ==
  /\ pc = "githubDiscover"
  /\ ghPending # <<>>
  /\ \E listing \in GithubListings :
       /\ repoMap' = IncludeInMap(repoMap, listing, ghEnv)
       /\ githubRepoCache' = IncludeInCache(githubRepoCache, listing, ghEnv)
  /\ ghPending' = Tail(ghPending)
  /\ UNCHANGED <<mainVars, gitlabVars, githubStatic, githubRepos, ghEnv, ghCollectors,
                 githubResults, postVars, pureVars>>

\* The listing fails: the catch of lines 145-147 or 164-166 logs a warning
\* and discovery goes on with the next source.
GithubListingFails ==
  /\ pc = "githubDiscover"
  /\ ghPending # <<>>
  /\ failures' = failures \cup {Req("github", "listing", Head(ghPending).id)}
  /\ ghPending' = Tail(ghPending)
  /\ UNCHANGED <<pc, exitCode, fatal, stdout, window, github, gitlabVars, githubStatic,
                 githubRepos, ghEnv, repoMap, githubRepoCache, ghCollectors,
                 githubResults, postVars, pureVars>>

\* Lines 169-180, then main lines 966-969: the discovered names, and the
\* collectors started on them.
GithubDiscovered ==
  /\ pc = "githubDiscover"
  /\ ghPending = <<>>
  /\ LET repos == DiscoveredRepos(repoMap, ghEnv)
         cache == CacheDeleteAll(githubRepoCache, ghEnv.excludes)
     IN  /\ githubRepos' = repos
         /\ githubRepoCache' = cache
         /\ ghCollectors' = LaunchGithub(repos, cache)
  /\ ghEnv' = NoEnv
  /\ repoMap' = <<>>
  /\ pc' = "githubCollect"
  /\ UNCHANGED <<exitCode, fatal, stdout, failures, window, github, gitlabVars,
                 githubStatic, ghPending, githubResults, postVars, pureVars>>

\* Once the metadata step is over the three fetches of lines 815-819 are
\* issued together.
GithubInfoOk(i) ==
  /\ pc = "githubCollect"
  /\ ghCollectors[i].step = "info"
  /\ LET c == ghCollectors[i]
         parts == SplitBy(c.fullName, "/")
         data == [found |-> TRUE, name |-> IF Len(parts) >= 2 THEN parts[2] ELSE c.fullName,
                  full_name |-> c.fullName]
     IN  /\ githubRepoCache' = CacheSet(githubRepoCache, normalizeRepoName(c.fullName), data)
         /\ ghCollectors' = [ghCollectors EXCEPT ![i].step = "fetching",
                                                 ![i].repoInfo = data]
  /\ UNCHANGED <<mainVars, gitlabVars, githubStatic, githubRepos, ghEnv, ghPending,
                 repoMap, githubResults, postVars, pureVars>>

\* Lines 797-800: the metadata request fails, is logged, and the collector
\* goes on without metadata; nothing is written to githubRepoCache.
GithubInfoFails(i) ==
  /\ pc = "githubCollect"
  /\ ghCollectors[i].step = "info"
  /\ ghCollectors' = [ghCollectors EXCEPT ![i].step = "fetching"]
  /\ failures' = failures \cup {Req("github", "info", ghCollectors[i].fullName)}
  /\ UNCHANGED <<pc, exitCode, fatal, stdout, window, github, gitlabVars, githubStatic,
                 githubRepos, ghEnv, ghPending, repoMap, githubRepoCache, githubResults,
                 postVars, pureVars>>

\* One of the three concurrent fetches of a collector answers; with the
\* third answer the collector returns.
GithubFetchOk(i, kind) ==
  /\ pc = "githubCollect"
  /\ ghCollectors[i].step = "fetching"
  /\ kind \notin ghCollectors[i].got
  /\ \E data \in GithubResponses(kind) :
       LET c == ghCollectors[i]
           got == c.got \cup {kind}
       IN  ghCollectors' =
             [ghCollectors EXCEPT ![i] =
                [c EXCEPT ![kind] = StoredResponse(kind, data),
                          !.got = got,
                          !.step = IF got = GithubKinds THEN "done" ELSE "fetching"]]
  /\ UNCHANGED <<mainVars, gitlabVars, githubStatic, githubRepos, ghEnv, ghPending,
                 repoMap, githubRepoCache, githubResults, postVars, pureVars>>

\* One of them fails: nothing catches it in collectForGithubRepo or in main.
GithubFetchFails(i, kind) ==
  /\ pc = "githubCollect"
  /\ ghCollectors[i].step = "fetching"
  /\ kind \notin ghCollectors[i].got
  /\ Uncaught(Req("github", kind, ghCollectors[i].fullName))
  /\ UNCHANGED <<stdout, window, github, gitlabVars, githubVars, postVars, pureVars>>

\* Promise.all of lines 967-969 has resolved.
GithubCollected ==
  /\ pc = "githubCollect"
  /\ \A i \in 1..Len(ghCollectors) : ghCollectors[i].step = "done"
  /\ githubResults' = [i \in 1..Len(ghCollectors) |-> GithubResult(ghCollectors[i], window)]
  /\ ghCollectors' = <<>>
  /\ pc' = "collected"
  /\ UNCHANGED <<exitCode, fatal, stdout, failures, window, github, gitlabVars,
                 githubStatic, githubRepos, ghEnv, ghPending, repoMap, githubRepoCache,
                 postVars, pureVars>>

-----------------------------------------------------------------------------
(* Aggregation and rendering (src/index.js 977-1086).                      *)
(* A rendered block is a text of a few symbols, one per line: the symbol   *)
(* names the line, its figures are left out. An absent block (null) is the *)
(* empty text, which filter(Boolean) drops like null.                      *)

Null == <<>>

Lines(symbols) == Join([i \in 1..Len(symbols) |-> <<symbols[i]>>], <<NL>>)

\* Lines 979-984.
hasActivity(project) ==
  \/ Len(project.commits) # 0
  \/ Len(project.mrsOpened) # 0
  \/ Len(project.mrsMerged) # 0
  \/ Len(project.issuesOpened) # 0
  \/ Len(project.issuesClosed) # 0

RECURSIVE FlatMap(_, _)
FlatMap(results, field) ==
  IF results = <<>> THEN <<>> ELSE Head(results)[field] \o FlatMap(Tail(results), field)

\* CLIENT_PROJECT_ID_SET.has(String(project.projectId).toLowerCase()), line 1005.
isClientProject(project, clientIds) ==
  \E i \in 1..Len(clientIds) :
    [k \in 1..Len(clientIds[i]) |-> LowerChar(clientIds[i][k])]
      = [k \in 1..Len(project.projectId) |-> LowerChar(project.projectId[k])]

NoActivityLine == <<"No activity recorded in the selected window.">>

\* formatTeamMetrics, lines 293-322: always a block.
formatTeamMetrics == Lines(<<"**Team Metrics**", "metrics-table">>)

\* formatVelocityHighlights, lines 504-534.
formatVelocityHighlights(totalMRMerged, totalCommits, totalIssuesClosed) ==
  IF totalMRMerged = 0 /\ totalCommits = 0 /\ totalIssuesClosed = 0 THEN Null
  ELSE Lines(<<"**Velocity Highlights**", "merge-rate">>)

\* formatBugActivity, lines 470-502: a block whatever the two lists hold.
formatBugActivity(issuesOpened, issuesClosed) ==
  Lines(<<"**Bug Activity**", "bug-table">>
        \o (IF Len(issuesClosed) # 0 THEN <<"**Highlights**">>
            ELSE IF Len(issuesOpened) = 0
            THEN <<"_No bug activity recorded in this window._">>
            ELSE <<>>))

\* formatOrgSummary, lines 423-451.
formatOrgSummary(label, projects) ==
  IF projects = <<>> THEN Null ELSE Lines(<<label, "org-repos">>)

\* formatMajorFeatures, lines 452-468.
formatMajorFeatures(mrs) ==
  IF mrs = <<>> THEN Null ELSE Lines(<<"**Major Features Shipped**", "features">>)

\* formatRepoTable, lines 551-571.
formatRepoTable(projects) ==
  IF projects = <<>> THEN Null ELSE Lines(<<"**By Repository (Top 10)**", "repo-table">>)

\* formatInactiveSummary, lines 573-576.
formatInactiveSummary(projects) ==
  IF projects = <<>> THEN Null ELSE <<"_No tracked activity in N repos this window._">>

\* formatTeamMembers, lines 386-421: always a block.
formatTeamMembers(members) ==
  IF members = <<>>
  THEN Lines(<<"**Team Members Metrics**", "_No member activity captured in this window._">>)
  ELSE Lines(<<"**Team Members Metrics**", "*Active Today*", "members">>)

\* formatCommitBreakdown, lines 536-549.
formatCommitBreakdown(members, totalCommits) ==
  IF totalCommits = 0 THEN Null ELSE Lines(<<"**Commit Breakdown**", "commit-table">>)

\* Array.prototype.filter(Boolean) on blocks, and filter(blocks => blocks.length).
Present(list) == SelectSeq(list, LAMBDA b : b # <<>>)

\* Line 1018-1020.
SummaryLine(results) ==
  IF SelectSeq(results, hasActivity) # <<>> THEN <<"summary-counts">> ELSE NoActivityLine

\* Lines 977-1086: messages from the results of both platforms.
RenderMessages(results, clientIds) ==
  LET activeResults == SelectSeq(results, hasActivity)
      inactiveResults == SelectSeq(results, LAMBDA q : ~hasActivity(q))
      allCommits == FlatMap(activeResults, "commits")
      allMrsOpened == FlatMap(activeResults, "mrsOpened")
      allMrsMerged == FlatMap(activeResults, "mrsMerged")
      allIssuesOpened == FlatMap(activeResults, "issuesOpened")
      allIssuesClosed == FlatMap(activeResults, "issuesClosed")
      internalActive == SelectSeq(activeResults, LAMBDA q : ~isClientProject(q, clientIds))
      clientActive == SelectSeq(activeResults, LAMBDA q : isClientProject(q, clientIds))
      memberSummaries ==
        buildMemberSummaries([commits |-> allCommits, mrsMerged |-> allMrsMerged,
                              mrsOpened |-> allMrsOpened, issuesOpened |-> allIssuesOpened,
                              issuesClosed |-> allIssuesClosed])
      organizationalBlocks ==
        Present(<< <<"header">>,
                   SummaryLine(results),
                   formatTeamMetrics,
                   formatVelocityHighlights(Len(allMrsMerged), Len(allCommits),
                                            Len(allIssuesClosed)),
                   formatBugActivity(allIssuesOpened, allIssuesClosed) >>)
      projectBlocks ==
        Present(<< <<"**Project Metrics**">>,
                   formatOrgSummary("Internal", internalActive),
                   formatOrgSummary("Client", clientActive),
                   formatMajorFeatures(allMrsMerged),
                   formatRepoTable(IF activeResults # <<>> THEN activeResults
                                   ELSE SubSeq(results, 1, IF Len(results) < 8
                                                           THEN Len(results) ELSE 8)),
                   formatInactiveSummary(inactiveResults) >>)
      teamBlocks ==
        Present(<< formatTeamMembers(memberSummaries),
                   formatCommitBreakdown(memberSummaries, Len(allCommits)),
                   <<"_Posted automatically by Aquarious Velocity Bot_">> >>)
  IN  Present(<<organizationalBlocks, projectBlocks, teamBlocks>>)

-----------------------------------------------------------------------------
(* postMessageBlocks and the end of main (src/index.js 609-618, 1088-1123) *)

\* Lines 610-612: the chunks of one group of blocks.
GroupChunks(blocks) ==
  LET content == Trim(Join(Present(blocks), <<NL, NL>>))
  IN  IF content = <<>> THEN <<>> ELSE chunkMessage(content, DefaultLimit)

\* A mutant: a chunk that trims to nothing is posted like any other.
RECURSIVE NextPostNoSkip(_, _, _)
NextPostNoSkip(msgs, g, c) ==
  IF g > Len(msgs) THEN NoPost
  ELSE IF c > Len(GroupChunks(msgs[g])) THEN NextPostNoSkip(msgs, g + 1, 1)
  ELSE [g |-> g, c |-> c]

\* The next chunk that is posted, from chunk c of group g on: the loops of
\* lines 1113-1115 and 613-617 skip a chunk that trims to nothing.
RECURSIVE NextPost(_, _, _)
NextPost(msgs, g, c) ==
  IF g > Len(msgs) THEN NoPost
  ELSE IF c > Len(GroupChunks(msgs[g])) THEN NextPost(msgs, g + 1, 1)
  ELSE IF Trim(GroupChunks(msgs[g])[c]) # <<>> THEN [g |-> g, c |-> c]
  ELSE NextPost(msgs, g, c + 1)

\* CLIENT_PROJECT_IDS as set in the environment, parsed (lines 23-27).
RunClientIds == { <<>>, << <<"1">> >> }

Results == gitlabResults \o githubResults

\* A mutant: a run without results ends quietly with status zero.
FinishNoProjectsQuiet ==
  /\ pc = "collected"
  /\ gitlabResults = <<>> /\ githubResults = <<>>
  /\ pc' = "exited"
  /\ exitCode' = "zero"
  /\ UNCHANGED <<fatal, stdout, failures, window, github, gitlabVars, githubVars, postVars,
                 pureVars>>

\* Lines 972-975: no result on either platform.
FinishNoProjects ==
  /\ pc = "collected"
  /\ gitlabResults = <<>> /\ githubResults = <<>>
  /\ Halt("No projects discovered.", NoReq)
  /\ UNCHANGED <<stdout, failures, window, github, gitlabVars, githubVars, postVars, pureVars>>

\* A mutant: the dry run prints the summary and goes on to the dispatch.
FinishDryRunThenDispatch ==
  /\ pc = "collected"
  /\ ~(gitlabResults = <<>> /\ githubResults = <<>>)
  /\ \E clientIds \in RunClientIds :
       /\ messages' = RenderMessages(Results, clientIds)
       /\ posting' = NextPost(RenderMessages(Results, clientIds), 1, 1)
  /\ stdout' = "summary-json"
  /\ pc' = "dispatch"
  /\ UNCHANGED <<exitCode, fatal, failures, window, github, gitlabVars, githubVars, sent,
                 pureVars>>

\* Lines 977-1111 with VELOCITY_DRY_RUN=1: the summary is printed and main
\* returns without a request.
FinishDryRun ==
  /\ pc = "collected"
  /\ ~(gitlabResults = <<>> /\ githubResults = <<>>)
  /\ \E clientIds \in RunClientIds : messages' = RenderMessages(Results, clientIds)
  /\ stdout' = "summary-json"
  /\ pc' = "exited"
  /\ exitCode' = "zero"
  /\ UNCHANGED <<fatal, failures, window, github, gitlabVars, githubVars, posting, sent,
                 pureVars>>

\* Lines 1113-1117 for the message groups msgs: the first chunk that is
\* not blank is posted; with nothing to post the loops end at once, line
\* 1117 reports and main returns.
Dispatch(msgs) ==
  /\ messages' = msgs
  /\ posting' = NextPost(msgs, 1, 1)
  /\ IF NextPost(msgs, 1, 1) = NoPost
     THEN pc' = "exited" /\ exitCode' = "zero" /\ stdout' = "Report posted"
     ELSE pc' = "dispatch" /\ UNCHANGED <<exitCode, stdout>>

\* Lines 977-1115 otherwise: the blocks are rendered and the first chunk of
\* the first group is posted.
StartDispatch ==
  /\ pc = "collected"
  /\ ~(gitlabResults = <<>> /\ githubResults = <<>>)
  /\ \E clientIds \in RunClientIds : Dispatch(RenderMessages(Results, clientIds))
  /\ UNCHANGED <<fatal, failures, window, github, gitlabVars, githubVars, sent, pureVars>>

\* Line 615: the endpoint accepts the chunk; the loops go on to the next
\* one, and after the last one line 1117 reports and main returns.
PostOk ==
  /\ pc = "dispatch"
  /\ posting # NoPost
  /\ sent' = Append(sent, GroupChunks(messages[posting.g])[posting.c])
  /\ LET next == NextPost(messages, posting.g, posting.c + 1)
     IN  /\ posting' = next
         /\ IF next = NoPost
            THEN pc' = "exited" /\ exitCode' = "zero" /\ stdout' = "Report posted"
            ELSE UNCHANGED <<pc, exitCode, stdout>>
  /\ UNCHANGED <<fatal, failures, window, github, gitlabVars, githubVars, messages,
                 pureVars>>

\* A mutant: a rejected POST is swallowed and the loop goes on.
PostFailsSwallowed ==
  /\ pc = "dispatch"
  /\ posting # NoPost
  /\ failures' = failures \cup {Req("discord", "post", GroupChunks(messages[posting.g])[posting.c])}
  /\ LET next == NextPost(messages, posting.g, posting.c + 1)
     IN  /\ posting' = next
         /\ IF next = NoPost
            THEN pc' = "exited" /\ exitCode' = "zero" /\ stdout' = "Report posted"
            ELSE UNCHANGED <<pc, exitCode, stdout>>
  /\ UNCHANGED <<fatal, window, github, gitlabVars, githubVars, messages, sent, pureVars>>

\* Line 615: the POST is rejected; postMessageBlocks and main have no try,
\* so main().catch logs "Failed:" and exits with 1 (lines 1120-1123).
PostFails ==
  /\ pc = "dispatch"
  /\ posting # NoPost
  /\ Uncaught(Req("discord", "post", GroupChunks(messages[posting.g])[posting.c]))
  /\ UNCHANGED <<stdout, window, github, gitlabVars, githubVars, postVars, pureVars>>

NextRun ==
  \/ StartMissingCredentials
  \/ StartStatic
  \/ StartDiscovery
  \/ GitlabListingOk
  \/ GitlabListingFails
  \/ GitlabDiscovered
  \/ \E i \in 1..Len(glCollectors) :
       \/ GitlabFetchOk(i)
       \/ GitlabFetchFails(i)
       \/ GitlabInfoOk(i)
       \/ GitlabInfoFails(i)
  \/ GithubStaticStart
  \/ GithubDiscoveryStart
  \/ GithubUnavailable
  \/ GithubListingOk
  \/ GithubListingFails
  \/ GithubDiscovered
  \/ \E i \in 1..Len(ghCollectors) :
       \/ GithubInfoOk(i)
       \/ GithubInfoFails(i)
       \/ \E kind \in GithubKinds : GithubFetchOk(i, kind) \/ GithubFetchFails(i, kind)
  \/ GithubCollected
  \/ FinishNoProjects
  \/ FinishDryRun
  \/ StartDispatch
  \/ PostOk
  \/ PostFails

SpecRun == InitRun /\ [][NextRun]_vars

-----------------------------------------------------------------------------
(* SpecDispatch: the dispatch of lines 1086-1117 and postMessageBlocks     *)
(* applied to every list of block groups of the bounds, the blocks being   *)
(* any texts and absent blocks, not only those main renders.               *)

MaxBlocks == 3   \* most blocks handed to the dispatch, of all groups together
NumGroups == 3   \* the groups of line 1086: organizational, project, team

\* The blocks of a group: absent, a blank, and a line as long as the limit
\* of the run followed by a blank line.
DispatchBlocks ==
  { Null, <<SP>>, [i \in 1..DefaultLimit |-> "b"] \o <<NL, SP>> }

\* The three groups, of MaxBlocks blocks at most together.
DispatchGroups ==
  UNION { { <<organizational, project, team>> :
              organizational \in [1..n[1] -> DispatchBlocks],
              project \in [1..n[2] -> DispatchBlocks],
              team \in [1..n[3] -> DispatchBlocks] } :
          n \in { m \in [1..NumGroups -> 0..MaxBlocks] : m[1] + m[2] + m[3] <= MaxBlocks } }

InitDispatch ==
  /\ pc = "blocks"
  /\ FreshRun

\* Lines 1086 and 1113-1115 on the groups: the groups without a block are
\* dropped and the dispatch starts.
DispatchBlockGroups ==
  /\ pc = "blocks"
  /\ \E groups \in DispatchGroups : Dispatch(SelectSeq(groups, LAMBDA blocks : blocks # <<>>))
  /\ UNCHANGED <<fatal, failures, window, github, gitlabVars, githubVars, sent, pureVars>>

NextDispatch ==
  \/ DispatchBlockGroups
  \/ PostOk
  \/ PostFails

SpecDispatch == InitDispatch /\ [][NextDispatch]_vars

-----------------------------------------------------------------------------
(* SpecDiscovery: the identifiers main hands to the collectors of one      *)
(* platform (lines 951-964), as a function of the static list, of what the *)
(* listings returned and of the filters and force lists.                   *)

MaxListed == 2   \* most repositories the listings of a platform return together

R2 == GithubRepo(<<"o", "/", "b">>, <<"b">>)

\* GitLab: GITLAB_PROJECT_IDS, the projects of all listings in order (an
\* overlap of two sources lists a project twice), NAME_INCLUDE_REGEX,
\* EXTRA_PROJECT_IDS and EXCLUDE_PROJECT_IDS.
GitlabDiscoveryInputs ==
  [ platform : {"gitlab"},
    static : { <<>>, <<"1", ",", "1">>, <<"2", ",", " ", "1">> },
    listed : SeqsUpTo({P1, P2}, MaxListed),
    nameInc : {"", "App"},
    extras : { <<>>, <<"1">>, <<"0", "1", ",", "3">> },
    excludes : { <<>>, <<"1">>, <<"0", "1", ",", "2">> } ]

\* GitHub: GITHUB_REPOS, the repositories of all listings in order,
\* GITHUB_REPO_INCLUDE_REGEX, GITHUB_EXTRA_REPOS and GITHUB_EXCLUDE_REPOS.
GithubDiscoveryInputs ==
  [ platform : {"github"},
    static : { <<>>, <<"o", "/", "a", ",", "O", "/", "a">>, <<"o", "/", "b">> },
    listed : SeqsUpTo({R1, R2}, MaxListed),
    nameInc : {""},
    extras : { <<>>, <<"O", "/", "A">>, <<"o", "/", "a", ",", "o", "/", "c">> },
    excludes : { <<>>, <<"o", "/", "A">>, <<"O", "/", "a", ",", "o", "/", "b">> } ]

\* Lines 951-955 and 183-239.
GitlabHanded(in) ==
  IF parseCsv(in.static) # <<>> THEN parseCsv(in.static)
  ELSE DiscoveredIds(in.listed,
                     [nameInc |-> in.nameInc, nameExc |-> "",
                      extras |-> MapSeq(parseCsv(in.extras), Number),
                      excludes |-> MapSeq(parseCsv(in.excludes), Number)])

\* Lines 961-964 and 117-181, with a GitHub client.
GithubHanded(in) ==
  IF parseCsv(in.static) # <<>> THEN parseCsv(in.static)
  ELSE LET cfg == [nameInc |-> in.nameInc, nameExc |-> "",
                   extras |-> parseCsv(in.extras),
                   excludes |-> MapSeq(parseCsv(in.excludes), normalizeRepoName)]
       IN  DiscoveredRepos(IncludeInMap(<<>>, in.listed, cfg), cfg)

InitDiscovery ==
  /\ input \in GitlabDiscoveryInputs \cup GithubDiscoveryInputs
  /\ output = NoOutput
  /\ ChunkIdle /\ AuthorIdle /\ MemberIdle /\ RunIdle

ResolveGitlab ==
  /\ output = NoOutput
  /\ input.platform = "gitlab"
  /\ output' = Returned(GitlabHanded(input))
  /\ UNCHANGED <<input, chunkVars, authorVars, memberVars, runVars>>

ResolveGithub ==
  /\ output = NoOutput
  /\ input.platform = "github"
  /\ output' = Returned(GithubHanded(input))
  /\ UNCHANGED <<input, chunkVars, authorVars, memberVars, runVars>>

NextDiscovery == ResolveGitlab \/ ResolveGithub

SpecDiscovery == InitDiscovery /\ [][NextDiscovery]_vars

Handed == output.ran

\* The key identifiers are compared by: the number on GitLab, the trimmed
\* and lower-cased name on GitHub.
KeyOf(platform, id) == IF platform = "gitlab" THEN Number(id) ELSE normalizeRepoName(id)

KeysOf(platform, list) == { KeyOf(platform, list[i]) : i \in 1..Len(list) }

\* C15: in both discovery flows no identifier of the discovery result has
\* the key of an entry of the force-exclude list, whether it is force-
\* included, listed, or both.
C15_ExcludeWins ==
  (Handed /\ parseCsv(input.static) = <<>>) =>
    KeysOf(input.platform, output.value) \cap KeysOf(input.platform, parseCsv(input.excludes)) = {}

\* C15 witness: a listed repository that is also force-included was
\* excluded from a discovery result that is not empty.
C15_Witness ==
  /\ Handed /\ parseCsv(input.static) = <<>>
  /\ output.value # <<>>
  /\ \E k \in KeysOf(input.platform, parseCsv(input.excludes)) :
       /\ k \in KeysOf(input.platform, parseCsv(input.extras))
       /\ \E i \in 1..Len(input.listed) :
            k = KeyOf(input.platform,
                      IF input.platform = "gitlab" THEN input.listed[i].id
                      ELSE input.listed[i].full_name)

\* C16: the identifiers handed to the collectors of a platform hold no key
\* twice, whether they come from the static list or from discovery.
C16_NoIdentifierTwice ==
  Handed =>
    \A i, j \in 1..Len(output.value) :
      KeyOf(input.platform, output.value[i]) = KeyOf(input.platform, output.value[j]) => i = j

\* C16 witness: a static list that names a repository twice was handed on
\* as it is.
C16_Witness ==
  /\ Handed /\ parseCsv(input.static) # <<>>
  /\ output.value = parseCsv(input.static)
  /\ \E i, j \in 1..Len(output.value) :
       i # j /\ KeyOf(input.platform, output.value[i]) = KeyOf(input.platform, output.value[j])

\* The part of C16 the code has: a discovery result holds no key twice.
C16_DiscoveryUnique ==
  (Handed /\ parseCsv(input.static) = <<>>) =>
    \A i, j \in 1..Len(output.value) :
      KeyOf(input.platform, output.value[i]) = KeyOf(input.platform, output.value[j]) => i = j

C16_OverlapReached ==
  /\ Handed /\ parseCsv(input.static) = <<>>
  /\ \E i, j \in 1..Len(input.listed) : i # j /\ input.listed[i] = input.listed[j]
  /\ output.value # <<>>

-----------------------------------------------------------------------------
(* SpecWindow: computeWindow (src/index.js 18-19, 29-41). Instants are     *)
(* counted in ticks, DayLen of them to the 24 hours of a day; the          *)
(* reporting timezone is a fixed offset from UTC, as the default           *)
(* Asia/Kolkata is; a date is the number of its day.                       *)

DayLen == 4   \* ticks of 24 hours
MaxNow == 6   \* the clock readings are DayLen .. DayLen + MaxNow

\* WINDOW_MODE as set in the environment (empty: unset).
WindowModes == {"", "DAILY", "TODAY", "today", "LAST24H", "last24h", "WEEKLY"}

\* String.prototype.toUpperCase on these values.
ToUpperCase(s) ==
  CASE s = "today" -> "TODAY" [] s = "last24h" -> "LAST24H" [] OTHER -> s

\* Line 19.
WINDOW_MODE(env) == ToUpperCase(Or(env, "DAILY"))

\* dayjs startOf("day") and endOf("day") in the timezone: the first and the
\* last tick of the local day of t.
StartOfDay(t, offset) == t - ((t + offset) % DayLen)

EndOfDay(t, offset) == StartOfDay(t, offset) + DayLen - 1

\* format("MMMM D, YYYY") in the timezone: the local date.
FormatDate(t, offset) == <<"date", (t + offset) \div DayLen>>

\* A mutant: a mode that is not recognized gets the window of TODAY.
computeWindowTodayElse(mode, now, offset) ==
  IF mode = "LAST24H"
  THEN [since |-> now - DayLen, until |-> now, label |-> <<"Last 24h">>]
  ELSE [since |-> StartOfDay(now, offset), until |-> EndOfDay(now, offset),
        label |-> FormatDate(StartOfDay(now, offset), offset)]

\* computeWindow, lines 29-41, for the mode of line 19.
computeWindow(mode, now, offset) ==
  IF mode = "LAST24H"
  THEN [since |-> now - DayLen, until |-> now, label |-> <<"Last 24h">>]
  ELSE IF mode = "TODAY"
  THEN [since |-> StartOfDay(now, offset), until |-> EndOfDay(now, offset),
        label |-> FormatDate(StartOfDay(now, offset), offset)]
  ELSE [since |-> StartOfDay(now - DayLen, offset), until |-> EndOfDay(now - DayLen, offset),
        label |-> FormatDate(StartOfDay(now - DayLen, offset), offset)]

InitWindow ==
  /\ input \in [mode : WindowModes, now : DayLen..(DayLen + MaxNow), offset : 0..(DayLen - 1)]
  /\ output = NoOutput
  /\ ChunkIdle /\ AuthorIdle /\ MemberIdle /\ RunIdle

CallComputeWindow ==
  /\ output = NoOutput
  /\ output' = Returned(computeWindow(WINDOW_MODE(input.mode), input.now, input.offset))
  /\ UNCHANGED <<input, chunkVars, authorVars, memberVars, runVars>>

NextWindow == CallComputeWindow

SpecWindow == InitWindow /\ [][NextWindow]_vars

\* The window is the local day that holds the instant t: it starts at a
\* local midnight, ends on the last tick of that day, and holds t.
IsDayOf(w, t, offset) ==
  /\ (w.since + offset) % DayLen = 0
  /\ w.until = w.since + DayLen - 1
  /\ w.since <= t /\ t <= w.until

\* C17: for every mode computeWindow returns since < until and a label
\* that is not empty; LAST24H gives the 24 hours up to now, TODAY the
\* current day of the reporting timezone, and every other value, DAILY and
\* the unset and unrecognized ones alike, the previous day.
C17_WindowByMode ==
  output.ran =>
    LET w == output.value
        mode == WINDOW_MODE(input.mode)
    IN  /\ w.since < w.until
        /\ w.label # <<>>
        /\ mode = "LAST24H" => (w.until = input.now /\ w.until - w.since = DayLen)
        /\ mode = "TODAY" => IsDayOf(w, input.now, input.offset)
        /\ mode \notin {"LAST24H", "TODAY"} =>
             /\ IsDayOf(w, input.now - DayLen, input.offset)
             /\ w = computeWindow("DAILY", input.now, input.offset)

\* C17 witness: an unrecognized mode gave the previous day, in a timezone
\* ahead of UTC, at an instant whose local date is not its UTC date.
C17_Witness ==
  /\ output.ran
  /\ input.mode = "WEEKLY"
  /\ input.offset > 0
  /\ (input.now + input.offset) \div DayLen # input.now \div DayLen
  /\ output.value.until < input.now


-----------------------------------------------------------------------------
(* SpecVelocity: the merge rate of formatVelocityHighlights (src/index.js  *)
(* 504-516) for every total of the bounds.                                 *)

MaxTotal == 3   \* largest total of merged or opened requests

\* Lines 515-516: the denominator is the first of totalMROpened,
\* totalMRMerged and 1 that is not zero.
MergeRate(totalMRMerged, totalMROpened) ==
  LET denominator == IF totalMROpened # 0 THEN totalMROpened
                     ELSE IF totalMRMerged # 0 THEN totalMRMerged
                     ELSE 1
  IN  RoundDiv(totalMRMerged * 100, denominator)

\* The block has no merge-rate line when it is absent (line 512).
NoRate == [shown |-> FALSE]

VelocityMergeRate(in) ==
  IF formatVelocityHighlights(in.totalMRMerged, in.totalCommits, in.totalIssuesClosed) = Null
  THEN NoRate
  ELSE [shown |-> TRUE, mergeRate |-> MergeRate(in.totalMRMerged, in.totalMROpened)]

InitVelocity ==
  /\ input \in [totalMRMerged : 0..MaxTotal, totalMROpened : 0..MaxTotal,
                totalCommits : 0..1, totalIssuesClosed : 0..1]
  /\ output = NoOutput
  /\ ChunkIdle /\ AuthorIdle /\ MemberIdle /\ RunIdle

CallFormatVelocityHighlights ==
  /\ output = NoOutput
  /\ output' = Returned(VelocityMergeRate(input))
  /\ UNCHANGED <<input, chunkVars, authorVars, memberVars, runVars>>

NextVelocity == CallFormatVelocityHighlights

SpecVelocity == InitVelocity /\ [][NextVelocity]_vars

Max3(a, b, c) ==
  IF a >= b /\ a >= c THEN a ELSE IF b >= c THEN b ELSE c

\* C18: the merge rate shown in the velocity highlights is
\* round(100 * merged / max(opened, merged, 1)) for all totals, and never
\* exceeds 100.
C18_MergeRate ==
  (output.ran /\ output.value.shown) =>
    /\ output.value.mergeRate
         = RoundDiv(100 * input.totalMRMerged,
                    Max3(input.totalMROpened, input.totalMRMerged, 1))
    /\ output.value.mergeRate <= 100

\* C18 witness: more requests were merged than opened in the window, and
\* the rate shown is above 100.
C18_Witness ==
  /\ output.ran /\ output.value.shown
  /\ input.totalMROpened = 1 /\ input.totalMRMerged = 2
  /\ output.value.mergeRate = 200

\* What the code has of C18: the rate is as claimed when no more requests
\* were merged than opened, or when none was opened.
C18_MergeRateWithinOpened ==
  (output.ran /\ output.value.shown
     /\ (input.totalMROpened = 0 \/ input.totalMRMerged <= input.totalMROpened)) =>
    /\ output.value.mergeRate
         = RoundDiv(100 * input.totalMRMerged,
                    Max3(input.totalMROpened, input.totalMRMerged, 1))
    /\ output.value.mergeRate <= 100


-----------------------------------------------------------------------------
(* SpecPulls: fetchGithubPulls (src/index.js 750-769) against a listing    *)
(* sorted by update time, newest first, that the platform serves in pages  *)
(* of PerPage items with a rel="next" link on every page but the last. A   *)
(* pull request is its updated_at. The call is [ran, rejected, page,       *)
(* requested, pulls]: whether it returned, whether it threw, the page      *)
(* whose request is in flight, the pages requested so far and pulls.       *)

PerPage == 2    \* items of a page: 100 in the source
MaxPulls == 5   \* most pull requests of a repository
LastTick == 3   \* update times and cutoffs are 1 .. LastTick

IsNewestFirst(s) == \A i \in 1..(Len(s) - 1) : s[i] >= s[i + 1]

PullListings == { s \in SeqsUpTo(1..LastTick, MaxPulls) : IsNewestFirst(s) }

\* The response to the request of a page: data and whether the link header
\* names a next page.
PageData(listing, page) ==
  SubSeq(listing, (page - 1) * PerPage + 1,
         IF page * PerPage < Len(listing) THEN page * PerPage ELSE Len(listing))

HasNextLink(listing, page) == page * PerPage < Len(listing)

\* A mutant of the loop body: the cutoff test of line 765 is missing.
PullsStepNoCutoff(call, data, hasNext, cutoff) ==
  IF data = <<>> THEN [call EXCEPT !.ran = TRUE]
  ELSE IF ~hasNext THEN [call EXCEPT !.ran = TRUE, !.pulls = @ \o data]
  ELSE [call EXCEPT !.pulls = @ \o data, !.page = @ + 1,
                    !.requested = Append(@, call.page + 1)]

\* One iteration of the loop of lines 755-767 from the response on: the
\* call returns, or requests the next page.
PullsStep(call, data, hasNext, cutoff) ==
  IF data = <<>> THEN [call EXCEPT !.ran = TRUE]
  ELSE IF ~hasNext THEN [call EXCEPT !.ran = TRUE, !.pulls = @ \o data]
  ELSE IF data[Len(data)] < cutoff THEN [call EXCEPT !.ran = TRUE, !.pulls = @ \o data]
  ELSE [call EXCEPT !.pulls = @ \o data, !.page = @ + 1,
                    !.requested = Append(@, call.page + 1)]

\* fetchGithubPulls up to its first await: the request of page 1 is out.
InitPulls ==
  /\ input \in [listing : PullListings, cutoff : 1..LastTick]
  /\ output = [ran |-> FALSE, rejected |-> FALSE, page |-> 1, requested |-> <<1>>,
               pulls |-> <<>>]
  /\ ChunkIdle /\ AuthorIdle /\ MemberIdle /\ RunIdle

\* The request in flight answers.
PullsPageOk ==
  /\ ~output.ran
  /\ output' = PullsStep(output, PageData(input.listing, output.page),
                         HasNextLink(input.listing, output.page), input.cutoff)
  /\ UNCHANGED <<input, chunkVars, authorVars, memberVars, runVars>>

\* The request in flight fails: github.get throws out of fetchGithubPulls.
PullsPageFails ==
  /\ ~output.ran
  /\ output' = [output EXCEPT !.ran = TRUE, !.rejected = TRUE]
  /\ UNCHANGED <<input, chunkVars, authorVars, memberVars, runVars>>

NextPulls == PullsPageOk \/ PullsPageFails

SpecPulls == InitPulls /\ [][NextPulls]_vars

\* The page gives a reason to stop: it is empty, it has no next-page link,
\* or its last item was updated before the cutoff.
StopsAt(listing, page, cutoff) ==
  LET data == PageData(listing, page)
  IN  \/ data = <<>>
      \/ ~HasNextLink(listing, page)
      \/ data[Len(data)] < cutoff

\* C20: the pages are requested one after another from page 1, a page only
\* when no page before it gave a reason to stop (so none after the first
\* page whose last item is older than the cutoff), and a call that returns
\* has stopped at the first page that gives a reason and returns the
\* listing in order up to its last fetched item, with every pull request
\* updated at or after the cutoff in it.
C20_PullsEarlyExit ==
  LET call == output
      answered == IF call.ran /\ ~call.rejected THEN Len(call.requested)
                  ELSE Len(call.requested) - 1
  IN  /\ call.requested = [p \in 1..Len(call.requested) |-> p]
      /\ call.ran \/ call.page = Len(call.requested)
      /\ \A p \in 1..(Len(call.requested) - 1) : ~StopsAt(input.listing, p, input.cutoff)
      /\ (call.ran /\ ~call.rejected) =>
           /\ StopsAt(input.listing, Len(call.requested), input.cutoff)
           /\ call.pulls = SubSeq(input.listing, 1, Len(call.pulls))
           /\ \A i \in 1..Len(input.listing) :
                input.listing[i] >= input.cutoff => i <= Len(call.pulls)
      /\ Len(call.pulls) <= answered * PerPage

\* C20 witness: the call returned after two pages, on a second page whose
\* last item is older than the cutoff, leaving a third page unrequested.
C20_Witness ==
  /\ output.ran /\ ~output.rejected
  /\ output.requested = <<1, 2>>
  /\ HasNextLink(input.listing, 2)
  /\ output.pulls[Len(output.pulls)] < input.cutoff
  /\ \E i \in 1..Len(output.pulls) : output.pulls[i] >= input.cutoff


-----------------------------------------------------------------------------
(* SpecRequests: the change requests of collectForProject (src/index.js    *)
(* 634-645) and of collectForGithubRepo (lines 859-888) for every window   *)
(* computeWindow gives and every fetched request of the bounds. The        *)
(* reporting timezone is UTC here.                                         *)

\* The instants a record may carry: from before the earliest since to
\* after the latest until.
Stamps == 0..(2 * DayLen + MaxNow)

RequestModes == {"LAST24H", "TODAY", "DAILY"}

\* A merge request as GitLab serves it; merged_at may be null.
GitlabRequests ==
  [state : {"opened", "merged"}, created_at : Stamps, updated_at : {0},
   merged_at : Stamps \cup {NoTime},
   author : {[name |-> "alice", username |-> "alice", email |-> ""]}]

\* A pull request as GitHub serves it: its state is open or closed, and
\* one that has merged_at is closed.
GithubRequests ==
  { p \in [state : {"open", "closed"}, login : {"bob"}, created_at : Stamps,
           updated_at : {0}, merged_at : Stamps \cup {NoTime}] :
      p.merged_at # NoTime => p.state = "closed" }

\* The same request one tick later.
Later(r) ==
  [r EXCEPT !.created_at = @ + 1,
            !.merged_at = IF @ = NoTime THEN NoTime ELSE @ + 1]

\* The fetched lists: none, one request, or a request and a later one.
Fetched(requests) ==
  {<<>>} \cup { <<r>> : r \in requests } \cup { <<r, Later(r)>> : r \in requests }

\* Lines 949-950 with the clock at now.
WindowAt(mode, now) ==
  LET w == computeWindow(mode, now, 0)
  IN  [since |-> w.since, until |-> w.until, monthStart |-> 0]

\* What the collector of the platform returns for the fetched requests.
CollectRequests(in) ==
  IF in.platform = "gitlab"
  THEN GitlabResult([NewGitlabCollector(<<"1">>) EXCEPT !.mrsUpdated = in.fetched],
                    WindowAt(in.mode, in.now))
  ELSE GithubResult([NewGithubCollector(<<"o", "/", "r">>, {}) EXCEPT !.pulls = in.fetched],
                    WindowAt(in.mode, in.now))

InitRequests ==
  /\ \E platform \in {"gitlab", "github"}, mode \in RequestModes,
        now \in DayLen..(DayLen + MaxNow) :
       \E fetched \in Fetched(IF platform = "gitlab" THEN GitlabRequests
                              ELSE GithubRequests) :
         input = [platform |-> platform, mode |-> mode, now |-> now, fetched |-> fetched]
  /\ output = NoOutput
  /\ ChunkIdle /\ AuthorIdle /\ MemberIdle /\ RunIdle

CallCollectRequests ==
  /\ output = NoOutput
  /\ output' = Returned(CollectRequests(input))
  /\ UNCHANGED <<input, chunkVars, authorVars, memberVars, runVars>>

NextRequests == CallCollectRequests

SpecRequests == InitRequests /\ [][NextRequests]_vars

\* The normalized record of a fetched request.
Normalized(in, r) ==
  IF in.platform = "gitlab" THEN simplifyMr(r, output.value.projectId)
  ELSE GithubPull(r, output.value.projectId)

StrictlyInside(t, w) == t # NoTime /\ w.since < t /\ t < w.until

\* The collection holds, in fetched order, exactly the fetched requests
\* that satisfy Keep.
HoldsExactly(collection, in, Keep(_)) ==
  collection = MapSeq(SelectSeq(in.fetched, Keep), LAMBDA r : Normalized(in, r))

\* C21 as stated: on both platforms a request is among the opened iff its
\* created-at is strictly inside the window, and among the merged iff its
\* state is "merged" and its merged-at is strictly inside the window.
C21_InWindowAsStated ==
  output.ran =>
    LET w == WindowAt(input.mode, input.now)
    IN  /\ HoldsExactly(output.value.mrsOpened, input,
                        LAMBDA r : StrictlyInside(r.created_at, w))
        /\ HoldsExactly(output.value.mrsMerged, input,
                        LAMBDA r : r.state = "merged" /\ StrictlyInside(r.merged_at, w))

\* C21: on both platforms a request is among the opened iff its created-at
\* is strictly inside the window; it is among the merged iff its merged-at
\* is strictly inside the window and, on GitLab, its state is "merged". On
\* GitHub the state is not read: a merged pull request is closed, and
\* its merged-at alone tells that it was merged.
C21_InWindow ==
  output.ran =>
    LET w == WindowAt(input.mode, input.now)
    IN  /\ HoldsExactly(output.value.mrsOpened, input,
                        LAMBDA r : StrictlyInside(r.created_at, w))
        /\ HoldsExactly(output.value.mrsMerged, input,
                        LAMBDA r : /\ input.platform = "gitlab" => r.state = "merged"
                                   /\ StrictlyInside(r.merged_at, w))

\* C21 witness: a GitHub pull request created exactly at since and merged
\* inside the window is among the merged and not among the opened, and the
\* one after it, created inside the window, is among the opened.
C21_Witness ==
  /\ output.ran
  /\ input.platform = "github"
  /\ Len(input.fetched) = 2
  /\ input.fetched[1].created_at = WindowAt(input.mode, input.now).since
  /\ input.fetched[1].state = "closed"
  /\ Len(output.value.mrsMerged) >= 1
  /\ Len(output.value.mrsOpened) = 1
  /\ output.value.mrsOpened[1].created_at = input.fetched[2].created_at


-----------------------------------------------------------------------------
(* SpecTotals: the partition and the totals of main (src/index.js          *)
(* 977-1001) for every list of at most two ProjectResults whose            *)
(* collections hold at most one record, commits at most two.               *)

PrimaryFields == <<"commits", "mrsOpened", "mrsMerged", "issuesOpened", "issuesClosed">>

\* results.reduce((sum, project) => sum + project[field].length, 0).
RECURSIVE SumLen(_, _)
SumLen(results, field) ==
  IF results = <<>> THEN 0 ELSE Len(Head(results)[field]) + SumLen(Tail(results), field)

\* A mutant of lines 1000-1001: the month-to-date totals are reduced over
\* the active results.
MonthTotalOverActive(results, activeResults, field) == SumLen(activeResults, field)

\* Lines 1000-1001: the month-to-date totals are reduced over results.
MonthTotal(results, activeResults, field) == SumLen(results, field)

\* Lines 979-1001: the partition and the totals.
Aggregate(results) ==
  LET activeResults == SelectSeq(results, hasActivity)
      inactiveResults == SelectSeq(results, LAMBDA project : ~hasActivity(project))
  IN  [activeResults |-> activeResults,
       inactiveResults |-> inactiveResults,
       totalCommits |-> SumLen(activeResults, "commits"),
       totalMROpened |-> SumLen(activeResults, "mrsOpened"),
       totalMRMerged |-> SumLen(activeResults, "mrsMerged"),
       totalIssuesOpened |-> SumLen(activeResults, "issuesOpened"),
       totalIssuesClosed |-> SumLen(activeResults, "issuesClosed"),
       totalMonthIssuesOpened |-> MonthTotal(results, activeResults, "monthIssuesOpened"),
       totalMonthIssuesClosed |-> MonthTotal(results, activeResults, "monthIssuesClosed")]

\* The ProjectResults main may hold: a result is its identifier and its
\* seven collections.
SomeRecords == { <<>>, <<"record">> }

TotalsResults ==
  [projectId : {<<"1">>}, commits : SomeRecords \cup { <<"record", "record">> },
   mrsOpened : SomeRecords, mrsMerged : SomeRecords,
   issuesOpened : SomeRecords, issuesClosed : SomeRecords,
   monthIssuesOpened : SomeRecords, monthIssuesClosed : SomeRecords]

InitTotals ==
  /\ input \in {<<>>} \cup { <<a>> : a \in TotalsResults }
                 \cup { <<a, [b EXCEPT !.projectId = <<"2">>]>> : a, b \in TotalsResults }
  /\ output = NoOutput
  /\ ChunkIdle /\ AuthorIdle /\ MemberIdle /\ RunIdle

CallAggregate ==
  /\ output = NoOutput
  /\ output' = Returned(Aggregate(input))
  /\ UNCHANGED <<input, chunkVars, authorVars, memberVars, runVars>>

NextTotals == CallAggregate

SpecTotals == InitTotals /\ [][NextTotals]_vars

\* Some primary collection of the result holds a record.
AnyPrimary(r) == \E k \in 1..Len(PrimaryFields) : r[PrimaryFields[k]] # <<>>

\* The sum of the sizes of a collection over the results that satisfy Keep.
RECURSIVE SizeOver(_, _, _, _)
SizeOver(results, field, Keep(_), i) ==
  IF i > Len(results) THEN 0
  ELSE (IF Keep(results[i]) THEN Len(results[i][field]) ELSE 0)
       + SizeOver(results, field, Keep, i + 1)

\* C22: the active results are the results with a record in some primary
\* collection, the inactive ones the others, each result in exactly one of
\* the two lists; every primary total is the sum of the collection's size
\* over the active results, which is the sum over all results; the
\* month-to-date totals are the sums over all results.
C22_PartitionAndTotals ==
  output.ran =>
    LET t == output.value
        Total(field) ==
          CASE field = "commits" -> t.totalCommits
            [] field = "mrsOpened" -> t.totalMROpened
            [] field = "mrsMerged" -> t.totalMRMerged
            [] field = "issuesOpened" -> t.totalIssuesOpened
            [] field = "issuesClosed" -> t.totalIssuesClosed
    IN  /\ t.activeResults = SelectSeq(input, AnyPrimary)
        /\ t.inactiveResults = SelectSeq(input, LAMBDA r : ~AnyPrimary(r))
        /\ Len(t.activeResults) + Len(t.inactiveResults) = Len(input)
        /\ \A i \in 1..Len(input) :
             (\E j \in 1..Len(t.activeResults) : t.activeResults[j] = input[i])
               # (\E j \in 1..Len(t.inactiveResults) : t.inactiveResults[j] = input[i])
        /\ \A k \in 1..Len(PrimaryFields) :
             /\ Total(PrimaryFields[k]) = SizeOver(input, PrimaryFields[k], AnyPrimary, 1)
             /\ Total(PrimaryFields[k])
                  = SizeOver(input, PrimaryFields[k], LAMBDA r : TRUE, 1)
        /\ t.totalMonthIssuesOpened
             = SizeOver(input, "monthIssuesOpened", LAMBDA r : TRUE, 1)
        /\ t.totalMonthIssuesClosed
             = SizeOver(input, "monthIssuesClosed", LAMBDA r : TRUE, 1)

\* C22 witness: of two results the first is active and the second
\* inactive, and the month-to-date issues of the inactive one are in the
\* month-to-date totals.
C22_Witness ==
  /\ output.ran
  /\ Len(input) = 2
  /\ output.value.activeResults = <<input[1]>>
  /\ output.value.inactiveResults = <<input[2]>>
  /\ input[2].monthIssuesOpened # <<>>
  /\ input[1].monthIssuesOpened = <<>>
  /\ output.value.totalMonthIssuesOpened = 1
  /\ output.value.totalCommits = 2


-----------------------------------------------------------------------------
(* SpecIssues: the issues of a repository from the platform to the         *)
(* contributor summaries: the fetch bounded by monthStart (src/index.js    *)
(* 647-649, 771-786), the four collections (650-668, 908-930), the         *)
(* normalized records (704-715, 890-906) and buildMemberSummaries over     *)
(* them, for every window computeWindow gives, every day of the month the  *)
(* clock may stand on and every issue of the bounds. The timezone is UTC.  *)

MonthDays == 2   \* days of a month

\* dayjs().tz(REPORT_TZ).startOf("month"), line 950, with the clock at now
\* on the given day of the month.
StartOfMonth(now, dayOfMonth) == StartOfDay(now, 0) - (dayOfMonth - 1) * DayLen

\* The issues of a repository: created, perhaps closed later, and last
\* updated by that or at the end of the time line.
LastStamp == 2 * DayLen + MaxNow

IssueTimes ==
  { t \in [created_at : Stamps, closed_at : Stamps \cup {NoTime}, updated_at : Stamps] :
      /\ t.closed_at # NoTime => t.created_at <= t.closed_at
      /\ t.updated_at \in {LastStamp,
                           IF t.closed_at # NoTime THEN t.closed_at ELSE t.created_at} }

GitlabIssues ==
  { [created_at |-> t.created_at, closed_at |-> t.closed_at, updated_at |-> t.updated_at,
     author |-> a] :
      t \in IssueTimes,
      a \in {[name |-> "alice", username |-> "alice", email |-> ""], NoAuthor} }

GithubIssues ==
  { [created_at |-> t.created_at, closed_at |-> t.closed_at, updated_at |-> t.updated_at,
     login |-> l, pull_request |-> FALSE] :
      t \in IssueTimes, l \in {"bob", ""} }

\* The same issue, reopened and touched one tick later.
LaterIssue(issue) ==
  [issue EXCEPT !.created_at = @ + 1, !.closed_at = NoTime, !.updated_at = @ + 1]

\* The issues of the repository: none, one, or one and a later one.
Repository(issues) ==
  {<<>>} \cup { <<x>> : x \in issues } \cup { <<x, LaterIssue(x)>> : x \in issues }

IssueWindow(in) ==
  [WindowAt(in.mode, in.now) EXCEPT !.monthStart = StartOfMonth(in.now, in.dayOfMonth)]

\* The platform's answer to updated_after (GitLab) and since (GitHub): the
\* issues updated at or after the instant.
UpdatedSince(issues, instant) == SelectSeq(issues, LAMBDA x : x.updated_at >= instant)

\* Lines 977-999 and 1017 for one result: the contributor summaries are
\* built from the collections of the active results.
MembersOf(result) ==
  LET activeResults == SelectSeq(<<result>>, hasActivity)
  IN  buildMemberSummaries([commits |-> FlatMap(activeResults, "commits"),
                            mrsMerged |-> FlatMap(activeResults, "mrsMerged"),
                            mrsOpened |-> FlatMap(activeResults, "mrsOpened"),
                            issuesOpened |-> FlatMap(activeResults, "issuesOpened"),
                            issuesClosed |-> FlatMap(activeResults, "issuesClosed")])

\* The collector of the platform on the issues of the repository, and the
\* summaries main builds from its result.
CollectIssues(in) ==
  LET w == IssueWindow(in)
      fetched == UpdatedSince(in.issues, w.monthStart)
      result ==
        IF in.platform = "gitlab"
        THEN GitlabResult([NewGitlabCollector(<<"1">>) EXCEPT !.issuesUpdated = fetched], w)
        ELSE GithubResult([NewGithubCollector(<<"o", "/", "r">>, {})
                             EXCEPT !.issues = StoredResponse("issues", fetched)], w)
  IN  [fetched |-> fetched, result |-> result, members |-> MembersOf(result)]

InitIssues ==
  /\ \E platform \in {"gitlab", "github"}, mode \in RequestModes,
        now \in DayLen..(DayLen + MaxNow), dayOfMonth \in 1..MonthDays :
       \E issues \in Repository(IF platform = "gitlab" THEN GitlabIssues ELSE GithubIssues) :
         input = [platform |-> platform, mode |-> mode, now |-> now,
                  dayOfMonth |-> dayOfMonth, issues |-> issues]
  /\ output = NoOutput
  /\ ChunkIdle /\ AuthorIdle /\ MemberIdle /\ RunIdle

CallCollectIssues ==
  /\ output = NoOutput
  /\ output' = Returned(CollectIssues(input))
  /\ UNCHANGED <<input, chunkVars, authorVars, memberVars, runVars>>

NextIssues == CallCollectIssues

SpecIssues == InitIssues /\ [][NextIssues]_vars

\* The author of an issue as the platform tells it, and the name it
\* resolves to.
SourceAuthor(in, issue) ==
  IF in.platform = "gitlab" THEN issue.author ELSE GithubAuthor(issue.login)

SourceName(in, issue) ==
  IF SourceAuthor(in, issue) = NoAuthor THEN Unknown ELSE SourceAuthor(in, issue).name

\* The count of the contributor in the summaries; 0 without a summary.
CountOf(members, name, field) ==
  IF HasMember(members, name)
  THEN (CHOOSE m \in {members[i] : i \in 1..Len(members)} : m.name = name)[field]
  ELSE 0

\* The fetched issues that satisfy Keep and whose author resolves to name.
AuthoredBy(in, fetched, name, Keep(_)) ==
  Len(SelectSeq(fetched, LAMBDA x : Keep(x) /\ SourceName(in, x) = name))

\* The normalized records carry the authors of the issues they come from.
CarryAuthors(in, records, sources) ==
  /\ Len(records) = Len(sources)
  /\ \A i \in 1..Len(records) : records[i].author = SourceAuthor(in, sources[i])

\* C23: the records of the issues opened and closed in the window carry
\* the authors of their source issues, and in the summaries every
\* contributor's issues-opened and issues-closed counts are the numbers of
\* such issues the contributor authored, "Unknown" standing for the issues
\* without an author.
C23_IssueAuthorsCounted ==
  output.ran =>
    LET w == IssueWindow(input)
        Opened(x) == StrictlyInside(x.created_at, w)
        Closed(x) == StrictlyInside(x.closed_at, w)
        r == output.value
    IN  /\ CarryAuthors(input, r.result.issuesOpened, SelectSeq(r.fetched, Opened))
        /\ CarryAuthors(input, r.result.issuesClosed, SelectSeq(r.fetched, Closed))
        /\ \A name \in {"alice", "bob", Unknown} :
             /\ CountOf(r.members, name, "issuesOpened")
                  = AuthoredBy(input, r.fetched, name, Opened)
             /\ CountOf(r.members, name, "issuesClosed")
                  = AuthoredBy(input, r.fetched, name, Closed)

\* C23 witness: a GitLab issue that alice authored was opened in the
\* window; the summaries have no alice and count it for "Unknown".
C23_Witness ==
  /\ output.ran
  /\ input.platform = "gitlab"
  /\ Len(input.issues) = 1
  /\ input.issues[1].author # NoAuthor
  /\ Len(output.value.result.issuesOpened) = 1
  /\ ~HasMember(output.value.members, "alice")
  /\ CountOf(output.value.members, Unknown, "issuesOpened") = 1

\* What the code has of C23: it holds of the GitHub collector.
C23_GithubIssueAuthorsCounted == input.platform = "github" => C23_IssueAuthorsCounted

C23_GithubAuthorReached ==
  /\ output.ran
  /\ input.platform = "github"
  /\ CountOf(output.value.members, "bob", "issuesClosed") = 1


\* Every record of the first list is a record of the second, and the first
\* is no longer than the second.
Within(records, others) ==
  /\ Len(records) <= Len(others)
  /\ \A i \in 1..Len(records) : \E j \in 1..Len(others) : others[j] = records[i]

\* C25: the issues counted as opened (closed) in the window are among the
\* issues counted as opened (closed) month-to-date, so the window counts
\* never exceed the month-to-date counts, and every issue of the repository
\* created or closed inside the window is fetched.
C25_WindowWithinMonthToDate ==
  output.ran =>
    LET w == IssueWindow(input)
        r == output.value
    IN  /\ Within(r.result.issuesOpened, r.result.monthIssuesOpened)
        /\ Within(r.result.issuesClosed, r.result.monthIssuesClosed)
        /\ \A i \in 1..Len(input.issues) :
             (StrictlyInside(input.issues[i].created_at, w)
                \/ StrictlyInside(input.issues[i].closed_at, w))
               => \E j \in 1..Len(r.fetched) : r.fetched[j] = input.issues[i]

\* C25 witness: on the first day of a month the window is the day before;
\* an issue opened in it and touched since is counted as opened in the
\* window and not as opened month-to-date.
C25_Witness ==
  /\ output.ran
  /\ input.mode = "DAILY" /\ input.dayOfMonth = 1
  /\ IssueWindow(input).until < IssueWindow(input).monthStart
  /\ Len(input.issues) = 1
  /\ Len(output.value.result.issuesOpened) = 1
  /\ output.value.result.monthIssuesOpened = <<>>

\* What the code has of C25: it holds when the window starts at or after
\* the start of the month.
C25_WithinMonthToDateLater ==
  IssueWindow(input).monthStart <= IssueWindow(input).since => C25_WindowWithinMonthToDate

\* An issue closed in the window is not fetched: it was last updated
\* before the start of the month.
C25_UnfetchedReached ==
  /\ output.ran
  /\ Len(input.issues) = 1
  /\ StrictlyInside(input.issues[1].closed_at, IssueWindow(input))
  /\ output.value.fetched = <<>>


-----------------------------------------------------------------------------
(* SpecFanOut: Promise.all over the collector calls of a platform          *)
(* (src/index.js 957-959, 966-970) with the calls settling in every order. *)
(* The call is [ran, rejected, calls, order, results]: whether main is     *)
(* past the await, whether it left by a rejection, the state of every      *)
(* collector call, the indices of the calls in the order they settled, and *)
(* the list main holds after the await.                                    *)

\* What a collector call may return for an identifier: a ProjectResult
\* with or without activity.
CallResults(id) == { [projectId |-> id, active |-> b] : b \in BOOLEAN }

Pending == [status |-> "pending"]

\* A mutant of Promise.all: the values in the order the calls settled.
PromiseAllAsSettled(calls, order) == [k \in 1..Len(order) |-> calls[order[k]].value]

\* Promise.all on fulfilled calls: the values in the order of the calls.
PromiseAll(calls, order) == [i \in 1..Len(calls) |-> calls[i].value]

\* main up to the await of line 958: a call per identifier, all pending.
InitFanOut ==
  /\ input \in SeqsUpTo({<<"1">>, <<"2">>, <<"3">>}, MaxListed)
  /\ output = [ran |-> FALSE, rejected |-> FALSE,
               calls |-> [i \in 1..Len(input) |-> Pending],
               order |-> <<>>, results |-> <<>>]
  /\ ChunkIdle /\ AuthorIdle /\ MemberIdle /\ RunIdle

\* A collector call returns its ProjectResult.
CallFulfils(i) ==
  /\ ~output.ran
  /\ output.calls[i] = Pending
  /\ \E value \in CallResults(input[i]) :
       output' = [output EXCEPT !.calls[i] = [status |-> "fulfilled", value |-> value],
                                !.order = Append(@, i)]
  /\ UNCHANGED <<input, chunkVars, authorVars, memberVars, runVars>>

\* A collector call rejects: Promise.all rejects at once and main leaves
\* by main().catch (lines 1120-1123) with the other calls still pending.
CallRejects(i) ==
  /\ ~output.ran
  /\ output.calls[i] = Pending
  /\ output' = [output EXCEPT !.calls[i] = [status |-> "rejected"],
                              !.order = Append(@, i),
                              !.ran = TRUE, !.rejected = TRUE]
  /\ UNCHANGED <<input, chunkVars, authorVars, memberVars, runVars>>

\* Every call is fulfilled (none was made for an empty list): the await
\* returns and main goes on with the list to line 977.
JoinResults ==
  /\ ~output.ran
  /\ \A i \in 1..Len(input) : output.calls[i].status = "fulfilled"
  /\ output' = [output EXCEPT !.ran = TRUE,
                              !.results = PromiseAll(output.calls, output.order)]
  /\ UNCHANGED <<input, chunkVars, authorVars, memberVars, runVars>>

NextFanOut ==
  \/ \E i \in 1..Len(input) : CallFulfils(i)
  \/ \E i \in 1..Len(input) : CallRejects(i)
  \/ JoinResults

SpecFanOut == InitFanOut /\ [][NextFanOut]_vars

\* C24: main holds no result while a call is pending; when it goes on to
\* the aggregation every call has settled, and the list it holds has the
\* result of every call at the place of the call's identifier in the
\* discovered list, whatever order the calls settled in.
C24_JoinedInCallOrder ==
  /\ ~output.ran => output.results = <<>>
  /\ output.rejected => output.results = <<>>
  /\ (output.ran /\ ~output.rejected) =>
       /\ \A i \in 1..Len(input) : output.calls[i].status = "fulfilled"
       /\ Len(output.order) = Len(input)
       /\ Len(output.results) = Len(input)
       /\ \A i \in 1..Len(input) :
            /\ output.results[i].projectId = input[i]
            /\ output.results[i] = output.calls[i].value

\* C24 witness: the call of the second identifier settled before the call
\* of the first, and main holds the results in the order of the list.
C24_Witness ==
  /\ output.ran /\ ~output.rejected
  /\ Len(input) = 2 /\ input[1] # input[2]
  /\ output.order = <<2, 1>>
  /\ output.results[1].projectId = input[1]
  /\ output.results[2].projectId = input[2]
  /\ output.results[1].active # output.results[2].active


-----------------------------------------------------------------------------
(* Properties of the run                                                   *)

FetchKinds == {"commits", "mrs", "pulls", "issues"}

\* C3: a commit, change-request or issue fetch of one repository that
\* fails is recovered inside that repository's collection: it is never the
\* failure that ends the run.
C3_FetchFailureRecovered ==
  \A r \in failures : r.kind \in FetchKinds => fatal.req # r

\* A fetch of one project failed, the process exited with status 1, and a
\* sibling collector never completed.
C3_Witness ==
  /\ pc = "exited" /\ exitCode = "nonzero"
  /\ fatal.req \in failures
  /\ fatal.req.kind \in FetchKinds
  /\ \E i \in 1..Len(glCollectors) :
       /\ glCollectors[i].projectId # fatal.req.target
       /\ glCollectors[i].step # "done"

\* C4: a listing call of one group, organization or user that fails is
\* recovered locally on either platform: it is never the failure that ends
\* the run.
C4_ListingFailureRecovered ==
  \A r \in failures : r.kind = "listing" => fatal.req # r

\* A GitLab listing failed, the process exited with status 1, and a later
\* source was never queried.
C4_Witness ==
  /\ pc = "exited" /\ exitCode = "nonzero"
  /\ fatal.req.kind = "listing" /\ fatal.req.platform = "gitlab"
  /\ Len(glPending) >= 2

\* The GitHub half of C4 as the code has it: a failed organization or user
\* listing of GitHub never ends the run.
C4_GithubListingRecovered ==
  \A r \in failures : (r.kind = "listing" /\ r.platform = "github") => fatal.req # r

C4_GithubRecoveryReached ==
  /\ pc = "exited" /\ exitCode = "zero"
  /\ \E r \in failures : r.kind = "listing" /\ r.platform = "github"

\* The chunks main posts, in order: every group's chunks that do not trim
\* to nothing (lines 1113-1115, 610-616).
RECURSIVE AllChunks(_)
AllChunks(msgs) ==
  IF msgs = <<>> THEN <<>>
  ELSE SelectSeq(GroupChunks(Head(msgs)), LAMBDA chunk : Trim(chunk) # <<>>)
       \o AllChunks(Tail(msgs))

\* C5: once the delivery of a chunk has failed the process has exited
\* with a non-zero status on that failure, and what was delivered is exactly
\* the chunks that precede the failed one, each once and in order: no later
\* chunk of the group or of a later group, nothing re-sent, nothing undone.
C5_DeliveryFailureFatal ==
  \A r \in failures :
    r.platform = "discord" =>
      /\ pc = "exited" /\ exitCode = "nonzero"
      /\ fatal.req = r
      /\ Len(sent) < Len(AllChunks(messages))
      /\ sent = SubSeq(AllChunks(messages), 1, Len(sent))
      /\ r.target = AllChunks(messages)[Len(sent) + 1]

\* A delivery failed after a chunk had been delivered and with a chunk of
\* a later group still to come.
C5_Witness ==
  /\ \E r \in failures : r.platform = "discord"
  /\ Len(sent) > 0
  /\ posting.g < Len(messages)
  /\ Len(sent) + 1 < Len(AllChunks(messages))

\* What the delivery endpoint is to receive for the groups msgs: group by
\* group, the chunks of the group's joined and trimmed blocks, in order,
\* without those that are only whitespace.
RECURSIVE ExpectedSends(_)
ExpectedSends(msgs) ==
  IF msgs = <<>> THEN <<>>
  ELSE SelectSeq(chunkMessage(Trim(Join(Present(Head(msgs)), <<NL, NL>>)), DefaultLimit),
                 LAMBDA chunk : \E i \in 1..Len(chunk) : ~IsSpace(chunk[i]))
       \o ExpectedSends(Tail(msgs))

\* C12: the chunks are sent one at a time in production order, group after
\* group: what has been sent is at every moment the first chunks of the
\* expected sends, so no chunk of only whitespace is sent and a group
\* whose joined text is empty sends nothing; a run that ends well has sent
\* them all.
C12_DispatchInOrder ==
  pc \in {"dispatch", "exited"} =>
    /\ Len(sent) <= Len(ExpectedSends(messages))
    /\ sent = SubSeq(ExpectedSends(messages), 1, Len(sent))
    /\ (pc = "dispatch") => posting # NoPost /\ Len(sent) < Len(ExpectedSends(messages))
    /\ (exitCode = "zero") => sent = ExpectedSends(messages)

\* C12 witness: a dispatch ended well after sending several chunks of one
\* group, skipping a chunk of only whitespace, with another group whose
\* joined text is empty.
C12_Witness ==
  /\ pc = "exited" /\ exitCode = "zero"
  /\ \E g \in 1..Len(messages) :
       /\ \E c \in 1..Len(GroupChunks(messages[g])) : Trim(GroupChunks(messages[g])[c]) = <<>>
       /\ Len(GroupChunks(messages[g])) >= 3
  /\ \E g \in 1..Len(messages) : Trim(Join(Present(messages[g]), <<NL, NL>>)) = <<>>
  /\ Len(sent) >= 2

\* C13: a run with the dry-run flag set, which is the run that prints the
\* JSON summary, has ended with status zero without a request to the
\* delivery endpoint: nothing sent, nothing being sent, no delivery failed.
C13_DryRunNeverPosts ==
  stdout = "summary-json" =>
    /\ pc = "exited" /\ exitCode = "zero"
    /\ sent = <<>>
    /\ posting = NoPost
    /\ \A r \in failures : r.platform # "discord"

\* C13 witness: a dry run over results of both platforms, one of them
\* active, printed its summary.
C13_Witness ==
  /\ stdout = "summary-json"
  /\ gitlabResults # <<>> /\ githubResults # <<>>
  /\ \E i \in 1..Len(Results) : hasActivity(Results[i])
  /\ ExpectedSends(messages) # <<>>

\* Every entry is trimmed and not empty.
TrimmedEntries(list) == \A i \in 1..Len(list) : list[i] # <<>> /\ Trim(list[i]) = list[i]

ProjectIds(list) == [i \in 1..Len(list) |-> list[i].projectId]

MarkedNotFound(r) ==
  IF r.platform = "gitlab"
  THEN CacheHas(projectCache, r.target) /\ ~CacheGet(projectCache, r.target).found
  ELSE /\ CacheHas(githubRepoCache, normalizeRepoName(r.target))
       /\ ~CacheGet(githubRepoCache, normalizeRepoName(r.target)).found

\* C19: on both platforms a repository-metadata lookup that failed is
\* recorded in the run-scoped cache as a not-found marker, so that a later
\* lookup of the identifier finds the marker and issues no request.
C19_FailedLookupCached ==
  \A r \in failures : r.kind = "info" => MarkedNotFound(r)

\* C19 witness: the metadata lookup of a GitHub repository failed and
\* githubRepoCache has no entry for the repository.
C19_Witness ==
  \E r \in failures :
    /\ r.kind = "info" /\ r.platform = "github"
    /\ ~CacheHas(githubRepoCache, normalizeRepoName(r.target))

\* What the code has of C19: the GitLab lookup that failed is cached as
\* not found, and a lookup that succeeded is cached on both platforms.
C19_GitlabFailureCached ==
  /\ \A r \in failures : (r.kind = "info" /\ r.platform = "gitlab") => MarkedNotFound(r)
  /\ \A i \in 1..Len(gitlabResults) :
       gitlabResults[i].projectInfo.found =>
         /\ CacheHas(projectCache, gitlabResults[i].projectId)
         /\ CacheGet(projectCache, gitlabResults[i].projectId).found
  /\ \A i \in 1..Len(githubResults) :
       githubResults[i].projectInfo.found =>
         /\ CacheHas(githubRepoCache, normalizeRepoName(githubResults[i].projectId))
         /\ CacheGet(githubRepoCache, normalizeRepoName(githubResults[i].projectId)).found

Exited == pc = "exited"

\* What the run has of C24: once main is past the collection no collector
\* call is left, and the GitLab results are in the order of the
\* identifiers, however the calls were interleaved.
C24_RunJoinsBeforeAggregation ==
  (pc \in {"collected", "dispatch"} \/ messages # <<>>) =>
    /\ glCollectors = <<>> /\ ghCollectors = <<>>
    /\ Len(gitlabResults) = Len(gitlabProjectIds)
    /\ \A i \in 1..Len(gitlabResults) : gitlabResults[i].projectId = gitlabProjectIds[i]
    /\ github => Len(githubResults) = Len(githubRepos)

\* The failure that ended the run, if a failed request did.
FatalRequest == fatal.req # NoReq

\* C6 as stated, with the repositories of a platform being the list main
\* holds for it: with no repository on both platforms the run exits non-zero
\* and posts nothing; with a repository and no fatal failure it exits zero.
C6_ExitStatusAsStated ==
  Exited =>
    /\ (gitlabProjectIds = <<>> /\ githubRepos = <<>>)
         => (exitCode = "nonzero" /\ sent = <<>>)
    /\ ((gitlabProjectIds # <<>> \/ githubRepos # <<>>) /\ ~FatalRequest)
         => exitCode = "zero"

\* The repositories of GitHub count when there is a GitHub client
\* (GITHUB_TOKEN, lines 961-970).
NoRepositories == gitlabProjectIds = <<>> /\ (githubRepos = <<>> \/ ~github)

\* C6, amended: with no GitLab project and no GitHub repository that a
\* GitHub client can collect, the run exits non-zero and posts nothing;
\* with one and no request failing fatally, it exits zero, after posting
\* every chunk or after the dry-run print.
C6_ExitStatus ==
  Exited =>
    /\ NoRepositories => (exitCode = "nonzero" /\ sent = <<>>)
    /\ (~NoRepositories /\ ~FatalRequest)
         => /\ exitCode = "zero"
            /\ \/ stdout = "summary-json" /\ sent = <<>>
               \/ stdout = "Report posted" /\ sent = AllChunks(messages)

\* GITHUB_REPOS names a repository, there is no GitHub client and GitLab
\* has no project: the run exited non-zero without a failed request.
C6_Witness ==
  /\ Exited
  /\ gitlabProjectIds = <<>> /\ githubRepos # <<>> /\ ~github
  /\ exitCode = "nonzero" /\ ~FatalRequest /\ sent = <<>>

\* Both exits of the second half are reached.
C6_ZeroExitReached ==
  /\ Exited /\ ~NoRepositories /\ exitCode = "zero"
  /\ stdout = "Report posted" /\ sent # <<>>

Rendered == messages # <<>>

NoneActive == Results # <<>> /\ \A i \in 1..Len(Results) : ~hasActivity(Results[i])

\* A block whose first line is the given one, in some message group.
HasBlock(firstLine) ==
  \E g \in 1..Len(messages) : \E b \in 1..Len(messages[g]) : messages[g][b][1] = firstLine

\* C10: with no active repository the summary line is the no-activity
\* sentence and there is no per-organization block, no major-features block
\* and no bug-activity block in the message groups.
C10_QuietReport ==
  (Rendered /\ NoneActive) =>
    /\ messages[1][2] = NoActivityLine
    /\ ~HasBlock("Internal") /\ ~HasBlock("Client")
    /\ ~HasBlock("**Major Features Shipped**")
    /\ ~HasBlock("**Bug Activity**")

\* No repository is active and the first group carries a bug-activity
\* block that ends with the no-bug-activity line.
C10_Witness ==
  /\ Rendered /\ NoneActive
  /\ \E b \in 1..Len(messages[1]) :
       /\ messages[1][b][1] = "**Bug Activity**"
       /\ messages[1][b][Len(messages[1][b])] = "_No bug activity recorded in this window._"

\* The rest of C10 as the code has it: the summary line, and no
\* per-organization and no major-features block.
C10_QuietReportButBugs ==
  (Rendered /\ NoneActive) =>
    /\ messages[1][2] = NoActivityLine
    /\ ~HasBlock("Internal") /\ ~HasBlock("Client")
    /\ ~HasBlock("**Major Features Shipped**")
    /\ HasBlock("**Bug Activity**")

=============================================================================
